---------------------------- MODULE Spec2Model ----------------------------
(***************************************************************************)
(* A model of src/afl-fuzz-bitmap.c (AFLRun / PacFuzz): the coverage       *)
(* bitmap routines, the save_if_interesting pipeline, the valuation        *)
(* side-channel and its hashmap.                                           *)
(*                                                                         *)
(* Bytes are integers 0..255, maps are sequences of bytes.  The routines   *)
(* of coverage-64.h (skim, discover_word, discover_word_mul,               *)
(* classify_counts, simplify_trace) and the aflrun scheduler are not       *)
(* part of the translated file; they are modelled from the specification   *)
(* and from the comments of the callers.                                   *)
(***************************************************************************)
EXTENDS Integers, Sequences, FiniteSets, TLC

(***************************************************************************)
(* Bounds and scaled program parameters                                    *)
(***************************************************************************)

\* number of save_if_interesting calls explored
MaxCalls == 2

\* number of passes through the save_to_queue label explored in one call
MaxRounds == 2

\* number of get_valuation calls explored by SpecVal
MaxRuns == 3

\* afl->fsrv.real_map_size, in bytes (scaled down)
RealMapSize == 1

\* bytes of a u64 word
WordBytes == 8

\* config.h caps, scaled down
KEEP_UNIQUE_HANG == 1

KEEP_UNIQUE_CRASH == 1

\* raw hit counts a trace byte takes in the model
TraceVals == {0, 1, 3}

\* exit code MSAN reports with
MSAN_ERROR == 86

\* table_size the valuation store is created with (scaled down)
ValueMapInitSize == 2

(***************************************************************************)
(* Bytes and words                                                         *)
(***************************************************************************)

RECURSIVE BitAndBits(_, _)
BitAndBits(a, b) ==
  IF a = 0 \/ b = 0 THEN 0
  ELSE (a % 2) * (b % 2) + 2 * BitAndBits(a \div 2, b \div 2)

\* a & b on bytes, tabulated
BitAndTable == [a \in 0..255 |-> [b \in 0..255 |-> BitAndBits(a, b)]]

BitAnd(a, b) == BitAndTable[a][b]

RECURSIVE BitXor(_, _)
BitXor(a, b) ==
  IF a = 0 /\ b = 0 THEN 0
  ELSE ((a + b) % 2) + 2 * BitXor(a \div 2, b \div 2)

\* v & ~c on bytes
AndNot(v, c) == v - BitAnd(v, c)

\* ((real_map_size + 7) >> 3): the u64 words has_new_bits scans
NumWords == (RealMapSize + 7) \div WordBytes

\* afl->fsrv.map_size: the allocated size, a whole number of words
MapSize == NumWords * WordBytes

FreshMap == [i \in 1..MapSize |-> 255]

\* the positions of the bytes of word w (1-based)
WordIdx(w) == ((w - 1) * WordBytes + 1)..(w * WordBytes)

\* the raw traces a target run can leave: counts in the real map, zero padding
Traces ==
  {[i \in 1..MapSize |-> IF i <= RealMapSize THEN t[i] ELSE 0] :
     t \in [1..RealMapSize -> TraceVals]}

(***************************************************************************)
(* Classification tables                                                   *)
(***************************************************************************)

simplify_lookup(b) == IF b = 0 THEN 1 ELSE 128

\* the class table with entry [3] left at 3
count_class_lookup8_three(b) ==
  IF b = 0 THEN 0
  ELSE IF b = 1 THEN 1
  ELSE IF b = 2 THEN 2
  ELSE IF b = 3 THEN 3
  ELSE IF b <= 7 THEN 8
  ELSE IF b <= 15 THEN 16
  ELSE IF b <= 31 THEN 32
  ELSE IF b <= 127 THEN 64
  ELSE 128

\* count_class_lookup8: the hit-count buckets

count_class_lookup8(b) ==
  IF b = 0 THEN 0
  ELSE IF b = 1 THEN 1
  ELSE IF b = 2 THEN 2
  ELSE IF b = 3 THEN 4
  ELSE IF b <= 7 THEN 8
  ELSE IF b <= 15 THEN 16
  ELSE IF b <= 31 THEN 32
  ELSE IF b <= 127 THEN 64
  ELSE 128

\* classify_counts: the class table applied to every byte of the trace
classify_counts(trace) == [i \in 1..MapSize |-> count_class_lookup8(trace[i])]

\* simplify_trace: hit / not hit
simplify_trace(trace) == [i \in 1..MapSize |-> simplify_lookup(trace[i])]

(***************************************************************************)
(* Novelty detection                                                       *)
(***************************************************************************)

\* does word w of cur share a bit with word w of vir
WordHit(cur, vir, w) == \E i \in WordIdx(w) : BitAnd(cur[i], vir[i]) # 0

\* the level a word with a shared bit contributes: 2 for an untouched byte
WordLevel(cur, vir, w) ==
  IF \E i \in WordIdx(w) : cur[i] # 0 /\ vir[i] = 255 THEN 2 ELSE 1

\* *virgin &= ~*current on word w
ClearWord(cur, vir, w) ==
  [i \in 1..MapSize |-> IF i \in WordIdx(w) THEN AndNot(vir[i], cur[i]) ELSE vir[i]]

\* a variant of discover_word that never reports a new edge
discover_word_count_only(ret, cur, vir, w) ==
  IF WordHit(cur, vir, w)
  THEN [ret |-> IF ret < 2 THEN 1 ELSE ret,
        virgin |-> ClearWord(cur, vir, w)]
  ELSE [ret |-> ret, virgin |-> vir]

\* discover_word(&ret, current, virgin) on word w
discover_word(ret, cur, vir, w) ==
  IF WordHit(cur, vir, w)
  THEN [ret |-> IF ret < 2 THEN WordLevel(cur, vir, w) ELSE ret,
        virgin |-> ClearWord(cur, vir, w)]
  ELSE [ret |-> ret, virgin |-> vir]

\* a variant of discover_word_mul that clears the seen bits without modify too
discover_word_mul_always(new_bits, cur, virgins, w, modify) ==
  LET one(k) == discover_word(new_bits[k], cur, virgins[k], w)
  IN [new_bits |-> [k \in DOMAIN virgins |-> one(k).ret],
      virgins |-> [k \in DOMAIN virgins |-> one(k).virgin]]

\* discover_word_mul on word w: every map k gets its own level and, with
\* modify, loses the seen bits
discover_word_mul(new_bits, cur, virgins, w, modify) ==
  LET one(k) == discover_word(new_bits[k], cur, virgins[k], w)
  IN [new_bits |-> [k \in DOMAIN virgins |-> one(k).ret],
      virgins |-> [k \in DOMAIN virgins |->
                     IF modify THEN one(k).virgin ELSE virgins[k]]]

\* skim: a pure read; true iff some word, once classified, still has a bit
\* set in one of the virgin maps
skim(virgins, trace) ==
  \E k \in DOMAIN virgins : \E w \in 1..NumWords :
    WordHit(classify_counts(trace), virgins[k], w)

RECURSIVE HasNewBitsLoop(_, _, _, _)
HasNewBitsLoop(ret, cur, vir, w) ==
  IF w > NumWords THEN [ret |-> ret, virgin |-> vir]
  ELSE LET r == IF \E i \in WordIdx(w) : cur[i] # 0
                THEN discover_word(ret, cur, vir, w)
                ELSE [ret |-> ret, virgin |-> vir]
       IN HasNewBitsLoop(r.ret, cur, r.virgin, w + 1)

\* a variant of has_new_bits whose update is `^=` where the code has `&= ~`:
\* a second run with the same trace sets the bits back
has_new_bits_toggle(trace, virgin_map, primary, bitmap_changed) ==
  LET r == HasNewBitsLoop(0, trace, virgin_map, 1)
  IN [ret |-> r.ret,
      virgin |-> [i \in 1..MapSize |-> BitXor(virgin_map[i], trace[i])],
      bitmap_changed |-> bitmap_changed \/ (r.ret # 0 /\ primary)]

\* has_new_bits(afl, virgin_map): the level found and the map after it;
\* `primary` says whether virgin_map == afl->virgin_bits
has_new_bits(trace, virgin_map, primary, bitmap_changed) ==
  LET r == HasNewBitsLoop(0, trace, virgin_map, 1)
  IN [ret |-> r.ret,
      virgin |-> r.virgin,
      bitmap_changed |-> IF r.ret # 0 /\ primary THEN TRUE ELSE bitmap_changed]

RECURSIVE HasNewBitsMulLoop(_, _, _, _, _)
HasNewBitsMulLoop(new_bits, cur, virgins, w, modify) ==
  IF w > NumWords THEN [new_bits |-> new_bits, virgins |-> virgins]
  ELSE LET r == IF \E i \in WordIdx(w) : cur[i] # 0
                THEN discover_word_mul(new_bits, cur, virgins, w, modify)
                ELSE [new_bits |-> new_bits, virgins |-> virgins]
       IN HasNewBitsMulLoop(r.new_bits, cur, r.virgins, w + 1, modify)

Max(a, b) == IF a >= b THEN a ELSE b

RECURSIVE MaxFrom(_, _)
MaxFrom(s, i) == IF i > Len(s) THEN 0 ELSE Max(s[i], MaxFrom(s, i + 1))

\* a variant of has_new_bits_mul whose diversity loop starts at map 0
has_new_bits_mul_from_zero(trace, virgins, modify) ==
  LET r == HasNewBitsMulLoop([k \in DOMAIN virgins |-> 0], trace, virgins, 1, modify)
      primary == r.new_bits[1]
      diversity == MaxFrom(r.new_bits, 1)
  IN [ret |-> primary + 4 * diversity,
      new_bits |-> r.new_bits,
      virgins |-> r.virgins]

\* has_new_bits_mul(afl, virgin_maps, &new_bits, num, modify)
has_new_bits_mul(trace, virgins, modify) ==
  LET r == HasNewBitsMulLoop([k \in DOMAIN virgins |-> 0], trace, virgins, 1, modify)
      primary == r.new_bits[1]
      diversity == MaxFrom(r.new_bits, 2)
  IN [ret |-> primary + 4 * diversity,
      new_bits |-> r.new_bits,
      virgins |-> r.virgins]

\* a variant of has_new_bits_unclassified that lost the `!` of line 289
has_new_bits_unclassified_inverted(trace, virgins) ==
  IF skim(virgins, trace) THEN 0 ELSE 1

\* has_new_bits_unclassified(afl, virgin_maps, num)
has_new_bits_unclassified(trace, virgins) ==
  IF ~skim(virgins, trace) THEN 0 ELSE 1

(***************************************************************************)
(* Hashmap                                                                 *)
(***************************************************************************)

\* a chain is a sequence of nodes, head first; bucket i is table[i + 1]
hashmap_create(table_size) ==
  [size |-> 0, table_size |-> table_size,
   table |-> [i \in 1..table_size |-> << >>]]

hashmap_fit(key, table_size) == key % table_size

\* the inner while loop of hashmap_resize: every pair of the chain is pushed
\* on the front of its new bucket
RECURSIVE RehashChain(_, _, _)
RehashChain(chain, new_table, new_table_size) ==
  IF chain = << >> THEN new_table
  ELSE LET pair == Head(chain)
           index == hashmap_fit(pair.key, new_table_size)
       IN RehashChain(Tail(chain),
                      [new_table EXCEPT ![index + 1] = <<pair>> \o @],
                      new_table_size)

RECURSIVE RehashFrom(_, _, _, _)
RehashFrom(map, i, new_table, new_table_size) ==
  IF i > map.table_size THEN new_table
  ELSE RehashFrom(map, i + 1,
                  RehashChain(map.table[i], new_table, new_table_size),
                  new_table_size)

\* a variant of hashmap_resize that fits the pairs with the old table size
hashmap_resize_old_fit(map) ==
  LET new_table_size == map.table_size * 2
      new_table == [i \in 1..new_table_size |-> << >>]
  IN [size |-> map.size, table_size |-> new_table_size,
      table |-> RehashFrom(map, 1, new_table, map.table_size)]

hashmap_resize(map) ==
  LET new_table_size == map.table_size * 2
      new_table == [i \in 1..new_table_size |-> << >>]
  IN [size |-> map.size, table_size |-> new_table_size,
      table |-> RehashFrom(map, 1, new_table, new_table_size)]

hashmap_size(map) == map.size

\* a variant of hashmap_insert that tests the load before counting the pair
hashmap_insert_test_first(map, key, value) ==
  LET index == hashmap_fit(key, map.table_size)
      newPair == [key |-> key, value |-> value]
      m0 == IF map.size > map.table_size \div 2 THEN hashmap_resize(map) ELSE map
  IN [m0 EXCEPT !.table[hashmap_fit(key, m0.table_size) + 1] = <<newPair>> \o @,
                !.size = @ + 1]

hashmap_insert(map, key, value) ==
  LET index == hashmap_fit(key, map.table_size)
      newPair == [key |-> key, value |-> value]
      m1 == [map EXCEPT !.table[index + 1] = <<newPair>> \o @,
                        !.size = @ + 1]
  IN IF m1.size > m1.table_size \div 2 THEN hashmap_resize(m1) ELSE m1

\* the position of the first pair of the chain with this key, 0 when none
RECURSIVE ChainFind(_, _, _)
ChainFind(chain, key, i) ==
  IF i > Len(chain) THEN 0
  ELSE IF chain[i].key = key THEN i
  ELSE ChainFind(chain, key, i + 1)

hashmap_remove(map, key) ==
  LET index == hashmap_fit(key, map.table_size)
      chain == map.table[index + 1]
      at == ChainFind(chain, key, 1)
  IN IF at = 0 THEN map
     ELSE [map EXCEPT !.table[index + 1] =
                        SubSeq(chain, 1, at - 1) \o SubSeq(chain, at + 1, Len(chain)),
                      !.size = @ - 1]

NULL == [null |-> TRUE]

\* the keys of the pairs the table holds
KeyStored(map, key) ==
  \E i \in 1..map.table_size : \E j \in 1..Len(map.table[i]) :
    map.table[i][j].key = key

\* a variant of hashmap_get that starts the walk at pair->next
hashmap_get_skip_head(map, key) ==
  LET chain == map.table[hashmap_fit(key, map.table_size) + 1]
      at == ChainFind(chain, key, 2)
  IN IF at = 0 THEN NULL ELSE chain[at]

hashmap_get(map, key) ==
  LET index == hashmap_fit(key, map.table_size)
      chain == map.table[index + 1]
      at == ChainFind(chain, key, 1)
  IN IF at = 0 THEN NULL ELSE chain[at]

(***************************************************************************)
(* State                                                                   *)
(***************************************************************************)

VARIABLES
  afl,      \* the fields of afl_state_t the file reads and writes
  sched,    \* the scheduler: its diversity map and the recover notifications
  cfg,      \* the settings of the session (environment, command line)
  fs,       \* the files, each <<directory, number, name suffixes>>
  pc,       \* where save_if_interesting stands
  loc,      \* the locals of the call in flight
  pre,      \* afl, sched and fs as they were when the call in flight began
  calls,    \* the calls made so far; also the clock get_cur_time() reads
  vb        \* run_valuation_binary: the parent, the child and the timer

vars == <<afl, sched, cfg, fs, pc, loc, pre, calls, vb>>

\* the buckets of afl->n_fuzz (scaled down)
N_FUZZ_SIZE == 2

\* x == 0xFFFFFFFF, the value at which line 528 stops counting
Saturated(x) == x \div 65536 = 65535 /\ x % 65536 = 65535

Faults == {"OK", "TMOUT", "CRASH", "ERROR"}

ValFaults == {"NONE", "TMOUT", "CRASH", "ERROR"}

\* the wait statuses of a valuation child
ChildStatuses ==
  {[signaled |-> FALSE, code |-> c, sig |-> "none"] : c \in {0, 1, MSAN_ERROR}}
  \cup {[signaled |-> TRUE, code |-> 0, sig |-> g] : g \in {"SIGKILL", "SIGSEGV"}}

NoFile == "nofile"

\* what a valuation binary writes to its side-file
Contents == {"a", "b", "c"}

\* the side-files the runs of the save_if_interesting model produce
RunContents == {"a", "b"}

\* hash32 of a side-file; "a" and "c" share their hash
hash32(content) ==
  CASE content = "a" -> 5
    [] content = "b" -> 8
    [] OTHER -> 5

RECURSIVE SumFrom(_, _)
SumFrom(t, i) == IF i > Len(t) THEN 0 ELSE t[i] * i + SumFrom(t, i + 1)

\* hash64 of the trace
hash64(trace) == SumFrom(trace, 1)

ZeroTrace == [i \in 1..MapSize |-> 0]

\* a session's settings
Config(ni, cm, kt, ve, hl, fq, nr) ==
  [non_instrumented_mode |-> ni, crash_mode |-> cm, afl_keep_timeouts |-> kt,
   val_enabled |-> ve, hang_longer |-> hl, freq_schedule |-> fq,
   no_crash_readme |-> nr, uses_asan |-> FALSE]

\* the sessions explored: the default one, one keeping timeouts, a
\* non-instrumented one, and one in crash mode with a frequency schedule
Configs ==
  {Config(FALSE, FALSE, FALSE, TRUE, TRUE, FALSE, FALSE),
   Config(FALSE, FALSE, TRUE, TRUE, TRUE, FALSE, FALSE),
   Config(TRUE, FALSE, TRUE, FALSE, TRUE, FALSE, TRUE),
   Config(FALSE, TRUE, FALSE, FALSE, FALSE, TRUE, FALSE)}

\* bitmap_changed when the first call comes: calibration outside this file
\* may have set it; the default session is explored with both values
Sessions ==
  {[cfg |-> c, bitmap_changed |-> b] : c \in Configs, b \in BOOLEAN} \
  {[cfg |-> c, bitmap_changed |-> TRUE] :
     c \in Configs \ {Config(FALSE, FALSE, FALSE, TRUE, TRUE, FALSE, FALSE)}}

InitAfl ==
  [virgin_bits |-> FreshMap,
   virgin_tmout |-> FreshMap,
   virgin_crash |-> FreshMap,
   bitmap_changed |-> FALSE,
   trace_bits |-> ZeroTrace,
   total_crashes |-> 0,
   total_tmouts |-> 0,
   saved_hangs |-> 0,
   saved_crashes |-> 0,
   saved_tmouts |-> 0,
   queued_items |-> 0,
   queued_extra |-> 0,
   queued_with_cov |-> 0,
   queue |-> << >>,
   total_saved_crashes |-> 0,
   total_saved_positives |-> 0,
   value_map |-> hashmap_create(ValueMapInitSize),
   n_fuzz |-> [i \in 0..(N_FUZZ_SIZE - 1) |-> 0],
   last_crash_time |-> 0,
   last_hang_time |-> 0]

InitSched == [virgin_div |-> FreshMap, recover_calls |-> 0]

\* fuzz_bitmap is << >> until write_bitmap creates the file
InitFs == [out |-> {}, cov |-> {}, fuzz_bitmap |-> << >>]

NoLoc == [idle |-> TRUE]

NoCall == [idle |-> TRUE]

\* the valuation runner at rest: the statics of lines 1132-1133 and the
\* locals of run_valuation_binary
InitVb ==
  [ppc |-> "idle", crashed |-> FALSE, num |-> 0, child |-> "none",
   status |-> [signaled |-> FALSE, code |-> 0, sig |-> "none"],
   child_pid |-> -1, child_timed_out |-> FALSE, timer |-> "off",
   is_run_failed |-> FALSE, exec_failed |-> FALSE, file |-> NoFile,
   result |-> "NONE", ret |-> 0, runs |-> 0,
   \* history of the run
   ran |-> FALSE, alarmed_running |-> FALSE, size_before |-> 0]

(***************************************************************************)
(* Valuation                                                               *)
(***************************************************************************)

\* the outcome run_valuation_binary reports for a wait status
ReportOutcome(status, child_timed_out, uses_asan, is_run_failed) ==
  IF status.signaled
  THEN IF child_timed_out /\ status.sig = "SIGKILL" THEN "TMOUT" ELSE "CRASH"
  ELSE IF uses_asan /\ status.code = MSAN_ERROR THEN "CRASH"
  ELSE IF is_run_failed THEN "ERROR"
  ELSE "NONE"

\* what run_valuation_binary can return: child_timed_out is cleared before
\* the fork and nothing in the file sets it; is_run_failed is read
\* uninitialized by the parent
ValuationFaults ==
  {ReportOutcome(st, FALSE, ua, irf) :
     st \in ChildStatuses, ua \in BOOLEAN, irf \in BOOLEAN}

\* hash_file(tmpfile): 0 when the file cannot be opened
hash_file(content) == IF content = NoFile THEN 0 ELSE hash32(content)

\* the side-file path: <covdir>/__valuation_file[_noncrash]_<seq>
TmpFile(a, crashed) ==
  [crashed |-> crashed,
   seq |-> IF crashed THEN a.total_saved_crashes ELSE a.total_saved_positives]

\* a variant of run_valuation that stores the hash without looking it up
run_valuation_no_lookup(a, f, c, crashed, fault_tmp, content) ==
  IF ~c.val_enabled
  THEN [afl |-> a, fs |-> f, ret |-> 0, val_hash |-> 0, valuation_file |-> NULL]
  ELSE
    LET tmpfile == TmpFile(a, crashed)
        removed == {x \in f.cov : x.name # tmpfile}
        written == IF content = NoFile THEN removed
                   ELSE removed \cup {[name |-> tmpfile, content |-> content]}
        hash == hash_file(content)
    IN IF fault_tmp = "TMOUT" \/ content = NoFile
       THEN [afl |-> a, fs |-> [f EXCEPT !.cov = written], ret |-> 0,
             val_hash |-> 0, valuation_file |-> NULL]
       ELSE [afl |-> [a EXCEPT !.value_map = hashmap_insert(@, hash, NULL)],
             fs |-> [f EXCEPT !.cov = written], ret |-> 1,
             val_hash |-> hash, valuation_file |-> tmpfile]

\* run_valuation: fault_tmp is what run_valuation_binary returned, content
\* what the child left in the side-file (NoFile when nothing)
run_valuation(a, f, c, crashed, fault_tmp, content) ==
  IF ~c.val_enabled
  THEN [afl |-> a, fs |-> f, ret |-> 0, val_hash |-> 0, valuation_file |-> NULL]
  ELSE
    LET tmpfile == TmpFile(a, crashed)
        removed == {x \in f.cov : x.name # tmpfile}
        written == IF content = NoFile THEN removed
                   ELSE removed \cup {[name |-> tmpfile, content |-> content]}
        hash == hash_file(content)
        kvp == hashmap_get(a.value_map, hash)
    IN IF fault_tmp = "TMOUT" \/ content = NoFile
       THEN [afl |-> a, fs |-> [f EXCEPT !.cov = written], ret |-> 0,
             val_hash |-> 0, valuation_file |-> NULL]
       ELSE IF kvp # NULL
       THEN [afl |-> a, fs |-> [f EXCEPT !.cov = removed], ret |-> 0,
             val_hash |-> 0, valuation_file |-> NULL]
       ELSE [afl |-> [a EXCEPT !.value_map = hashmap_insert(@, hash, NULL)],
             fs |-> [f EXCEPT !.cov = written], ret |-> 1,
             val_hash |-> hash, valuation_file |-> tmpfile]

\* a variant of save_valuation that names the target before it counts
save_valuation_name_first(a, f, val_hash, valuation_file, crashed) ==
  LET a1 == IF crashed
            THEN [a EXCEPT !.total_saved_crashes = @ + 1]
            ELSE [a EXCEPT !.total_saved_positives = @ + 1]
      seq == IF crashed THEN a.total_saved_crashes ELSE a.total_saved_positives
      target_file == <<IF crashed THEN "memory/neg" ELSE "memory/pos", seq, << >>>>
  IN [afl |-> a1,
      fs |-> [f EXCEPT !.cov = {x \in @ : x.name # valuation_file},
                       !.out = @ \cup {target_file}]]

\* save_valuation: count, then rename the side-file to memory/<neg|pos>/id:<seq>
save_valuation(a, f, val_hash, valuation_file, crashed) ==
  LET a1 == IF crashed
            THEN [a EXCEPT !.total_saved_crashes = @ + 1]
            ELSE [a EXCEPT !.total_saved_positives = @ + 1]
      seq == IF crashed THEN a1.total_saved_crashes ELSE a1.total_saved_positives
      target_file == <<IF crashed THEN "memory/neg" ELSE "memory/pos", seq, << >>>>
  IN [afl |-> a1,
      fs |-> [f EXCEPT !.cov = {x \in @ : x.name # valuation_file},
                       !.out = @ \cup {target_file}]]

get_valuation(a, f, c, crashed, num, fault_tmp, content) ==
  IF num > 0 \/ crashed
  THEN LET r == run_valuation(a, f, c, crashed, fault_tmp, content)
       IN IF r.ret # 0
          THEN LET s == save_valuation(r.afl, r.fs, r.val_hash, r.valuation_file, crashed)
               IN [afl |-> s.afl, fs |-> s.fs, ret |-> r.ret]
          ELSE [afl |-> r.afl, fs |-> r.fs, ret |-> r.ret]
  ELSE [afl |-> a, fs |-> f, ret |-> 0]

(***************************************************************************)
(* save_if_interesting                                                     *)
(***************************************************************************)

\* describe_op with the coverage suffix written before the timeout suffix
describe_op_cov_first(new_bits, new_paths) ==
  LET is_timeout == BitAnd(new_bits, 240) # 0
      nb == IF is_timeout THEN (new_bits - 128) % 256 ELSE new_bits
      new_div == nb \div 4
      cov == nb % 4
  IN (IF cov # 0 THEN (IF cov = 2 THEN <<",+cov2">> ELSE <<",+cov">>) ELSE << >>)
     \o (IF is_timeout THEN <<",+tout">> ELSE << >>)
     \o (IF new_div # 0
         THEN (IF new_div = 2 THEN <<",+div2">> ELSE <<",+div">>) ELSE << >>)
     \o (IF new_paths # 0 THEN <<",+path">> ELSE << >>)

\* describe_op: the suffixes the tag and new_paths add to the name
describe_op(new_bits, new_paths) ==
  LET is_timeout == BitAnd(new_bits, 240) # 0
      nb == IF is_timeout THEN (new_bits - 128) % 256 ELSE new_bits
      new_div == nb \div 4
      cov == nb % 4
  IN (IF is_timeout THEN <<",+tout">> ELSE << >>)
     \o (IF cov # 0 THEN (IF cov = 2 THEN <<",+cov2">> ELSE <<",+cov">>) ELSE << >>)
     \o (IF new_div # 0
         THEN (IF new_div = 2 THEN <<",+div2">> ELSE <<",+div">>) ELSE << >>)
     \o (IF new_paths # 0 THEN <<",+path">> ELSE << >>)

\* the virgin maps an array of map names points to
MapsOf(a, s, names) ==
  [k \in DOMAIN names |-> IF names[k] = "virgin_bits" THEN a.virgin_bits
                          ELSE s.virgin_div]

\* aflrun_get_virgins / aflrun_get_seed_virgins put `extra` maps after the
\* primary one
VirginNames(extra) == IF extra = 0 THEN <<"virgin_bits">> ELSE <<"virgin_bits", "div">>

\* the state a call starts from: the target run has left `trace` in trace_bits
Snapshot(trace) ==
  [afl |-> [afl EXCEPT !.trace_bits = trace], sched |-> sched, fs |-> fs]

\* the call returns r
Return(l, r) ==
  /\ pc' = "done"
  /\ loc' = [l EXCEPT !.ret = r]

\* a fatal error ends the process
Fatal(l) ==
  /\ pc' = "fatal"
  /\ loc' = l

\* the locals of a call; targets_num is read on the valuation path only
NewLoc(len, fault, trace, num) ==
  [len |-> len, fault |-> fault, targets_num |-> num, raw |-> trace,
   new_bits |-> 0, new_paths |-> 0, keeping |-> 0, classified |-> 0,
   is_timeout |-> 0, is_unique |-> 0, cksum |-> 0,
   virgins |-> <<"virgin_bits">>, ret |-> -1,
   \* history of the call
   skim |-> -1, classify_orig |-> 0, classify_rerun |-> 0, reruns |-> 0,
   enqueued |-> 0, rounds |-> 0, dup |-> FALSE,
   crash_branch |-> FALSE, escalated |-> FALSE, tmout_new |-> -1,
   crash_new |-> -1, hang_saved |-> FALSE, dry |-> -1, commits |-> 0,
   rerun_fault |-> "NONE", rerun_stop |-> FALSE, rerun_raw |-> trace]

\* a variant of lines 506-509 that counts the fault before the length test
EnterEmptyCounted ==
  /\ pc = "idle"
  /\ calls < MaxCalls
  /\ \E fault \in Faults, trace \in Traces :
       /\ pre' = Snapshot(trace)
       /\ calls' = calls + 1
       /\ sched' = [sched EXCEPT !.recover_calls = @ + 1]
       /\ afl' = [afl EXCEPT !.trace_bits = trace,
                             !.total_crashes = IF fault = "CRASH" THEN @ + 1 ELSE @,
                             !.total_tmouts = IF fault = "TMOUT" THEN @ + 1 ELSE @]
       /\ Return(NewLoc(0, fault, trace, 0), 0)
       /\ UNCHANGED <<cfg, fs, vb>>

\* len == 0: lines 506-509
EnterEmpty ==
  /\ pc = "idle"
  /\ calls < MaxCalls
  /\ \E fault \in Faults, trace \in Traces :
       /\ pre' = Snapshot(trace)
       /\ calls' = calls + 1
       /\ sched' = [sched EXCEPT !.recover_calls = @ + 1]
       /\ afl' = [afl EXCEPT !.trace_bits = trace]
       /\ Return(NewLoc(0, fault, trace, 0), 0)
       /\ UNCHANGED <<cfg, fs, vb>>

\* the saturated increment of lines 522-531
UpdateNFuzz(a, c, trace) ==
  IF c.freq_schedule
  THEN LET cksum == hash64(trace)
       IN [a EXCEPT !.n_fuzz[cksum % N_FUZZ_SIZE] =
                      IF ~Saturated(@) THEN @ + 1 ELSE @]
  ELSE a

\* len > 0, fault OK or CRASH: lines 511-554, the valuation step
EnterValuation ==
  /\ pc = "idle"
  /\ calls < MaxCalls
  /\ \E fault \in {"OK", "CRASH"}, trace \in Traces, num \in 0..1,
        fault_tmp \in ValuationFaults, content \in RunContents \cup {NoFile} :
       LET a0 == [afl EXCEPT !.trace_bits = trace]
           a1 == UpdateNFuzz(a0, cfg, trace)
           is_crash == fault = "CRASH"
           v == get_valuation(a1, fs, cfg, is_crash, num, fault_tmp, content)
           l0 == NewLoc(1, fault, trace, num)
           l1 == [l0 EXCEPT !.is_unique = v.ret,
                            !.cksum = IF cfg.freq_schedule THEN hash64(trace) ELSE 0,
                            !.dup = /\ cfg.val_enabled
                                    /\ num > 0 \/ is_crash
                                    /\ content # NoFile
                                    /\ KeyStored(a1.value_map, hash_file(content))]
           fn == <<IF is_crash THEN "memory/input/neg" ELSE "memory/input/pos",
                   IF is_crash THEN v.afl.total_saved_crashes
                   ELSE v.afl.total_saved_positives, << >>>>
       IN /\ pre' = Snapshot(trace)
          /\ calls' = calls + 1
          /\ afl' = v.afl
          /\ IF v.ret # 0
             THEN IF fn \in v.fs.out
                  THEN fs' = v.fs /\ Fatal(l1)
                  ELSE /\ fs' = [v.fs EXCEPT !.out = @ \cup {fn}]
                       /\ pc' = "detect"
                       /\ loc' = l1
             ELSE /\ fs' = v.fs
                  /\ pc' = "detect"
                  /\ loc' = l1
          /\ UNCHANGED <<sched, cfg, vb>>

\* len > 0, fault TMOUT or ERROR: lines 511-531 and the else of 718-720
EnterOther ==
  /\ pc = "idle"
  /\ calls < MaxCalls
  /\ \E fault \in {"TMOUT", "ERROR"}, trace \in Traces :
       LET a0 == [afl EXCEPT !.trace_bits = trace]
           l0 == NewLoc(1, fault, trace, 0)
       IN /\ pre' = Snapshot(trace)
          /\ calls' = calls + 1
          /\ afl' = UpdateNFuzz(a0, cfg, trace)
          /\ sched' = [sched EXCEPT !.recover_calls = @ + 1]
          /\ pc' = "switch"
          /\ loc' = [l0 EXCEPT !.cksum = IF cfg.freq_schedule THEN hash64(trace) ELSE 0]
          /\ UNCHANGED <<cfg, fs, vb>>

\* a variant of line 580 that lost the second `!`
NothingNewDropped(new_bits, new_paths) == new_bits = 0 /\ new_paths # 0

\* variants of lines 733 and 865 with `>` for `>=`
HangCapOffByOne(a) == a.saved_hangs > KEEP_UNIQUE_HANG

CrashCapOffByOne(a) == a.saved_crashes > KEEP_UNIQUE_CRASH

\* a variant of line 715 that leaves keeping at 0
MarkKeptForgotten(l) == l

\* line 580: nothing new, the run is dropped
NothingNew(new_bits, new_paths) == new_bits = 0 /\ new_paths = 0

\* line 733
HangCapReached(a) == a.saved_hangs >= KEEP_UNIQUE_HANG

\* line 865
CrashCapReached(a) == a.saved_crashes >= KEEP_UNIQUE_CRASH

\* line 715: keeping = 1
MarkKept(l) == [l EXCEPT !.keeping = 1]

\* the maps has_new_bits_mul leaves, written back where the array points
WriteBack(a, names, maps) == [a EXCEPT !.virgin_bits = maps[1]]

WriteBackDiv(s, names, maps) ==
  IF Len(names) > 1 THEN [s EXCEPT !.virgin_div = maps[2]] ELSE s

\* a variant of the tests of lines 613, 737 and 869 that ignores the flag
UnclassifiedWhatever(l) == l.classified >= 0

\* lines 613, 737 and 869: !classified
Unclassified(l) == l.classified = 0

\* a variant of line 582 that counts the run in every mode
CountInEveryMode(a, crash_mode) == [a EXCEPT !.total_crashes = @ + 1]

\* line 582: a run with nothing new is counted in crash mode only
CountInCrashMode(a, crash_mode) ==
  IF crash_mode THEN [a EXCEPT !.total_crashes = @ + 1] ELSE a

\* lines 556-585: skim, the dry run and the scheduler's answer
Detect ==
  /\ pc = "detect"
  /\ \E extra \in 0..loc.targets_num, new_paths \in 0..1 :
       LET names == VirginNames(extra)
           maps == MapsOf(afl, sched, names)
           nb == has_new_bits_unclassified(afl.trace_bits, maps)
           trace == IF nb # 0 THEN classify_counts(afl.trace_bits) ELSE afl.trace_bits
           dry == has_new_bits_mul(trace, maps, FALSE)
           a1 == IF nb # 0
                 THEN WriteBack([afl EXCEPT !.trace_bits = trace], names, dry.virgins)
                 ELSE afl
           s1 == IF nb # 0 THEN WriteBackDiv(sched, names, dry.virgins) ELSE sched
           l1 == [loc EXCEPT !.new_bits = nb, !.new_paths = new_paths,
                             !.virgins = names, !.skim = nb,
                             !.dry = IF nb # 0 THEN dry.ret ELSE -1,
                             !.classified = IF nb # 0 THEN 1 ELSE 0,
                             !.classify_orig = IF nb # 0 THEN 1 ELSE 0]
       IN /\ sched' = s1
          /\ IF NothingNew(nb, new_paths)
             THEN /\ afl' = CountInCrashMode(a1, cfg.crash_mode)
                  /\ Return(l1, 0)
             ELSE /\ afl' = a1
                  /\ pc' = "commit"
                  /\ loc' = l1
  /\ UNCHANGED <<cfg, fs, pre, calls, vb>>

\* lines 601-618: the maps are asked for again and the bits are cleared
Commit ==
  /\ pc = "commit"
  /\ \E extra \in 0..1 :
       LET names == VirginNames(extra)
           maps == MapsOf(afl, sched, names)
           trace == IF Unclassified(loc) THEN classify_counts(afl.trace_bits)
                    ELSE afl.trace_bits
           r == has_new_bits_mul(trace, maps, TRUE)
       IN /\ afl' = WriteBack([afl EXCEPT !.trace_bits = trace], names, r.virgins)
          /\ sched' = WriteBackDiv(sched, names, r.virgins)
          /\ loc' = [loc EXCEPT !.new_bits = r.ret, !.virgins = names,
                                !.classified = 1, !.commits = @ + 1,
                                !.classify_orig = IF Unclassified(loc) THEN @ + 1 ELSE @]
          /\ pc' = "save_to_queue"
  /\ UNCHANGED <<cfg, fs, pre, calls, vb>>

\* a variant of line 645 without the test of the primary level
IsExtraAnyPrimary(new_bits, new_paths) == new_bits \div 4 # 0 \/ new_paths # 0

\* line 645: the seed only comes from diversity or a path
IsExtra(new_bits, new_paths) ==
  new_bits % 4 = 0 /\ (new_bits \div 4 # 0 \/ new_paths # 0)

\* line 679: the seed has a new edge in the primary map
HasNewCov(new_bits) == new_bits % 4 = 2

\* lines 620-715: the queue file, add_to_queue, the marks, calibration
SaveToQueue ==
  /\ pc = "save_to_queue"
  /\ loc.rounds < MaxRounds
  /\ \E res \in {"OK", "ERROR"} :
       LET tag == (loc.new_bits + loc.is_timeout) % 256
           queue_fn == <<"queue", afl.queued_items, describe_op(tag, loc.new_paths)>>
           extra == IsExtra(loc.new_bits, loc.new_paths)
           cov == HasNewCov(loc.new_bits)
           entry == [fname |-> queue_fn, tested |-> 1,
                     aflrun_extra |-> IF extra THEN 1 ELSE 0,
                     has_new_cov |-> IF cov THEN 1 ELSE 0]
           a1 == [afl EXCEPT !.queue = Append(@, entry),
                             !.queued_items = @ + 1,
                             !.queued_extra = IF extra THEN @ + 1 ELSE @,
                             !.queued_with_cov = IF cov THEN @ + 1 ELSE @,
                             !.n_fuzz = IF loc.cksum # 0
                                        THEN [@ EXCEPT ![loc.cksum % N_FUZZ_SIZE] = 1]
                                        ELSE @]
           l1 == [loc EXCEPT !.rounds = @ + 1]
       IN IF queue_fn \in fs.out
          THEN /\ Fatal(l1)
               /\ UNCHANGED <<afl, fs>>
          ELSE /\ fs' = [fs EXCEPT !.out = @ \cup {queue_fn}]
               /\ afl' = a1
               /\ IF res = "ERROR"
                  THEN Fatal([l1 EXCEPT !.enqueued = @ + 1])
                  ELSE /\ pc' = "switch"
                       /\ loc' = MarkKept([l1 EXCEPT !.enqueued = @ + 1])
  /\ UNCHANGED <<sched, cfg, pre, calls, vb>>

\* a variant of lines 953-961 without the is_unique test of line 953
WriteArtifactAlways(a, f, l, fn) ==
  /\ afl' = a
  /\ IF fn \in f.out
     THEN /\ fs' = f
          /\ Fatal(l)
     ELSE /\ fs' = [f EXCEPT !.out = @ \cup {fn}]
          /\ Return(l, l.keeping)

\* lines 953-982: the crash or hang file, unless valuation kept the input
WriteArtifact(a, f, l, fn) ==
  /\ afl' = a
  /\ IF l.is_unique # 0
     THEN /\ fs' = f
          /\ Return(l, l.keeping)
     ELSE IF fn \in f.out
     THEN /\ fs' = f
          /\ Fatal(l)
     ELSE /\ fs' = [f EXCEPT !.out = @ \cup {fn}]
          /\ Return(l, l.keeping)

\* write_crash_readme: created with O_EXCL, failures ignored
write_crash_readme(f) == [f EXCEPT !.out = @ \cup {<<"crashes/README.txt", 0, << >>>>}]

\* lines 857-943 and the tail of the function: case FSRV_RUN_CRASH and the
\* keep_as_crash label, entered with afl as a and the locals as l
KeepAsCrash(a, l) ==
  LET a1 == [a EXCEPT !.total_crashes = @ + 1]
      lc == [l EXCEPT !.crash_branch = TRUE]
      ni == cfg.non_instrumented_mode
      cls == IF Unclassified(l) THEN classify_counts(a1.trace_bits) ELSE a1.trace_bits
      tr == simplify_trace(cls)
      h == has_new_bits(tr, a1.virgin_crash, FALSE, a1.bitmap_changed)
      a2 == IF ni THEN a1
            ELSE [a1 EXCEPT !.trace_bits = tr, !.virgin_crash = h.virgin,
                            !.bitmap_changed = h.bitmap_changed]
      l2 == IF ni THEN lc
            ELSE [lc EXCEPT !.crash_new = h.ret,
                            !.classify_orig =
                               IF Unclassified(l) /\ l.reruns = 0 THEN @ + 1 ELSE @,
                            !.classify_rerun =
                               IF Unclassified(l) /\ l.reruns # 0 THEN @ + 1 ELSE @]
      f1 == IF a2.saved_crashes = 0 /\ ~cfg.no_crash_readme
            THEN write_crash_readme(fs) ELSE fs
      fn == <<"crashes", a2.saved_crashes, << >>>>
      a3 == [a2 EXCEPT !.saved_crashes = @ + 1, !.last_crash_time = calls]
  IN IF CrashCapReached(a1)
     THEN /\ afl' = a1
          /\ fs' = fs
          /\ Return(lc, l.keeping)
     ELSE IF ~ni /\ h.ret = 0
     THEN /\ afl' = a2
          /\ fs' = fs
          /\ Return(l2, l.keeping)
     ELSE WriteArtifact(a3, f1, l2, fn)

SwitchCrash ==
  /\ pc = "switch"
  /\ loc.fault = "CRASH"
  /\ KeepAsCrash(afl, loc)
  /\ UNCHANGED <<sched, cfg, pre, calls, vb>>

\* case FSRV_RUN_ERROR
SwitchError ==
  /\ pc = "switch"
  /\ loc.fault = "ERROR"
  /\ Fatal(loc)
  /\ UNCHANGED <<afl, sched, cfg, fs, pre, calls, vb>>

\* default: return keeping
SwitchDefault ==
  /\ pc = "switch"
  /\ loc.fault = "OK"
  /\ Return(loc, loc.keeping)
  /\ UNCHANGED <<afl, sched, cfg, fs, pre, calls, vb>>

\* a variant of line 812 that takes the re-runs that still time out
RerunStillTimesOut(stop_soon, new_fault) == ~stop_soon /\ new_fault = "TMOUT"

\* line 812: the re-run was cut short or did not time out
RerunPassed(stop_soon, new_fault) == stop_soon \/ new_fault # "TMOUT"

\* lines 724-853: case FSRV_RUN_TMOUT
SwitchTmout ==
  /\ pc = "switch"
  /\ loc.fault = "TMOUT"
  /\ LET a1 == [afl EXCEPT !.total_tmouts = @ + 1]
         ni == cfg.non_instrumented_mode
         cls == IF Unclassified(loc) THEN classify_counts(a1.trace_bits)
                ELSE a1.trace_bits
         tr == simplify_trace(cls)
         h == has_new_bits(tr, a1.virgin_tmout, FALSE, a1.bitmap_changed)
         a2 == IF ni THEN a1
               ELSE [a1 EXCEPT !.trace_bits = tr, !.virgin_tmout = h.virgin,
                               !.bitmap_changed = h.bitmap_changed]
         l2 == IF ni THEN loc
               ELSE [loc EXCEPT !.classified = 1, !.tmout_new = h.ret,
                                !.classify_orig =
                                   IF Unclassified(loc) /\ loc.reruns = 0
                                   THEN @ + 1 ELSE @,
                                !.classify_rerun =
                                   IF Unclassified(loc) /\ loc.reruns # 0
                                   THEN @ + 1 ELSE @]
         l3 == [l2 EXCEPT !.is_timeout = 128]
         fn == <<"hangs", a2.saved_hangs, << >>>>
         Hang(a) == [a EXCEPT !.saved_hangs = @ + 1, !.last_hang_time = calls]
     IN IF HangCapReached(a1)
        THEN /\ afl' = a1
             /\ fs' = fs
             /\ Return(loc, loc.keeping)
        ELSE IF ~ni /\ h.ret = 0
        THEN /\ afl' = a2
             /\ fs' = fs
             /\ Return(l2, loc.keeping)
        ELSE IF cfg.hang_longer
        THEN \E new_fault \in Faults, new_trace \in Traces, stop_soon \in BOOLEAN :
               \* fuzz_run_target leaves a new trace, classify_counts follows
               LET a4 == [a2 EXCEPT !.trace_bits = classify_counts(new_trace)]
                   l4 == [l3 EXCEPT !.reruns = @ + 1, !.classify_rerun = 1,
                                    !.rerun_fault = new_fault,
                                    !.rerun_raw = new_trace,
                                    !.rerun_stop = stop_soon]
               IN IF ~stop_soon /\ new_fault = "CRASH"
                  THEN KeepAsCrash(a4, [l4 EXCEPT !.escalated = TRUE])
                  ELSE IF RerunPassed(stop_soon, new_fault)
                  THEN IF cfg.afl_keep_timeouts
                       THEN /\ afl' = [a4 EXCEPT !.saved_tmouts = @ + 1]
                            /\ fs' = fs
                            /\ pc' = "save_to_queue"
                            /\ loc' = [l4 EXCEPT !.virgins = <<"virgin_bits">>]
                       ELSE /\ afl' = a4
                            /\ fs' = fs
                            /\ Return(l4, loc.keeping)
                  ELSE WriteArtifact(Hang(a4), fs, [l4 EXCEPT !.hang_saved = TRUE], fn)
        ELSE WriteArtifact(Hang(a2), fs, [l3 EXCEPT !.hang_saved = TRUE], fn)
  /\ UNCHANGED <<sched, cfg, pre, calls, vb>>

\* the caller goes on; the next run clears the trace
Leave ==
  /\ pc = "done"
  /\ pc' = "idle"
  /\ loc' = NoLoc
  /\ pre' = NoCall
  /\ afl' = [afl EXCEPT !.trace_bits = ZeroTrace]
  /\ UNCHANGED <<sched, cfg, fs, calls, vb>>

\* write_bitmap: lines 38-55
write_bitmap ==
  /\ pc = "idle"
  /\ IF ~afl.bitmap_changed
     THEN UNCHANGED <<afl, fs>>
     ELSE /\ afl' = [afl EXCEPT !.bitmap_changed = FALSE]
          /\ fs' = [fs EXCEPT !.fuzz_bitmap = afl.virgin_bits]
  /\ UNCHANGED <<sched, cfg, pc, loc, pre, calls, vb>>

Init ==
  /\ \E s \in Sessions :
       /\ afl = [InitAfl EXCEPT !.bitmap_changed = s.bitmap_changed]
       /\ cfg = s.cfg
  /\ sched = InitSched
  /\ fs = InitFs
  /\ pc = "idle"
  /\ loc = NoLoc
  /\ pre = NoCall
  /\ calls = 0
  /\ vb = InitVb

Next ==
  \/ EnterEmpty
  \/ EnterValuation
  \/ EnterOther
  \/ Detect
  \/ Commit
  \/ SaveToQueue
  \/ SwitchTmout
  \/ SwitchCrash
  \/ SwitchError
  \/ SwitchDefault
  \/ Leave
  \/ write_bitmap

Spec == Init /\ [][Next]_vars

(***************************************************************************)
(* The valuation runner, step by step: the parent in get_valuation,        *)
(* run_valuation and run_valuation_binary, the forked child, and the       *)
(* interval timer.                                                         *)
(***************************************************************************)

\* sessions of the runner: valuation configured with and without ASAN, and
\* not configured
ValConfigs ==
  LET c == Config(FALSE, FALSE, FALSE, TRUE, TRUE, FALSE, FALSE)
  IN {c, [c EXCEPT !.uses_asan = TRUE], [c EXCEPT !.val_enabled = FALSE]}

\* what SIGALRM does to the fuzzer: the disposition is set outside this file
AlarmDispositions == {"default", "restart", "eintr", "ignore"}

\* get_valuation up to the fork: lines 1275-1280, 1289-1318, 1141-1172
ValCall ==
  /\ vb.ppc = "idle"
  /\ vb.runs < MaxRuns
  /\ \E crashed \in BOOLEAN, num \in 0..1, garbage \in BOOLEAN :
       LET v0 == [InitVb EXCEPT !.crashed = crashed, !.num = num,
                                !.runs = vb.runs + 1,
                                !.child_pid = vb.child_pid,
                                !.size_before = hashmap_size(afl.value_map)]
           tmpfile == TmpFile(afl, crashed)
       IN IF ~(num > 0 \/ crashed) \/ ~cfg.val_enabled
          THEN /\ vb' = [v0 EXCEPT !.ppc = "returned"]
               /\ fs' = fs
          ELSE /\ vb' = [v0 EXCEPT !.ppc = "forked", !.child = "running",
                                   !.child_pid = 1, !.child_timed_out = FALSE,
                                   !.is_run_failed = garbage, !.ran = TRUE]
               /\ fs' = [fs EXCEPT !.cov = {x \in @ : x.name # tmpfile}]
  /\ UNCHANGED <<afl, sched, cfg, pc, loc, pre, calls>>

\* lines 1226-1229: the one-shot timer
ValSetTimer ==
  /\ vb.ppc = "forked"
  /\ vb' = [vb EXCEPT !.ppc = "waiting", !.timer = "armed"]
  /\ UNCHANGED <<afl, sched, cfg, fs, pc, loc, pre, calls>>

\* the valuation binary writes the side-file named by PACFIX_FILENAME
ChildWrite ==
  /\ vb.ppc \in {"forked", "waiting"}
  /\ vb.child = "running"
  /\ vb.file = NoFile
  /\ \E content \in RunContents :
       /\ vb' = [vb EXCEPT !.file = content]
       /\ fs' = [fs EXCEPT !.cov = @ \cup {[name |-> TmpFile(afl, vb.crashed),
                                            content |-> content]}]
  /\ UNCHANGED <<afl, sched, cfg, pc, loc, pre, calls>>

\* lines 1213-1221: execve fails, the child sets its own copy of
\* is_run_failed and exits 0
ChildExecFails ==
  /\ vb.ppc \in {"forked", "waiting"}
  /\ vb.child = "running"
  /\ vb.file = NoFile
  /\ vb' = [vb EXCEPT !.child = "exited", !.exec_failed = TRUE,
                      !.status = [signaled |-> FALSE, code |-> 0, sig |-> "none"]]
  /\ UNCHANGED <<afl, sched, cfg, fs, pc, loc, pre, calls>>

\* the valuation binary ends: an exit code, or a signal of its own
ChildEnds ==
  /\ vb.ppc \in {"forked", "waiting"}
  /\ vb.child = "running"
  /\ \E st \in ChildStatuses :
       vb' = [vb EXCEPT !.child = IF st.signaled THEN "signaled" ELSE "exited",
                        !.status = st]
  /\ UNCHANGED <<afl, sched, cfg, fs, pc, loc, pre, calls>>

\* the timer expires while the parent waits (line 1233). child_pid and
\* child_timed_out are static to the file and no handler is defined in it:
\* the signal ends the fuzzer, is ignored, or runs a handler that cannot
\* name either variable
TimerExpires ==
  /\ vb.ppc = "waiting"
  /\ vb.timer = "armed"
  /\ \E disp \in AlarmDispositions :
       vb' = [vb EXCEPT !.timer = "expired",
                        !.alarmed_running = vb.child = "running",
                        !.ppc = CASE disp = "default" -> "killed"
                                  [] disp = "eintr" -> "fatal"
                                  [] OTHER -> @]
  /\ UNCHANGED <<afl, sched, cfg, fs, pc, loc, pre, calls>>

\* waitpid returns: lines 1233-1271, then run_valuation from line 1319 and
\* get_valuation from line 1281
ValWaitReturns ==
  /\ vb.ppc = "waiting"
  /\ vb.child \in {"exited", "signaled"}
  /\ LET fault == ReportOutcome(vb.status, vb.child_timed_out, cfg.uses_asan,
                                vb.is_run_failed)
         r == get_valuation(afl, fs, cfg, vb.crashed, vb.num, fault, vb.file)
     IN /\ afl' = r.afl
        /\ fs' = r.fs
        /\ vb' = [vb EXCEPT !.ppc = "returned", !.child_pid = 0, !.timer = "off",
                            !.result = fault, !.ret = r.ret]
  /\ UNCHANGED <<sched, cfg, pc, loc, pre, calls>>

\* the caller goes on
ValLeave ==
  /\ vb.ppc = "returned"
  /\ vb' = [InitVb EXCEPT !.runs = vb.runs, !.child_pid = vb.child_pid]
  /\ UNCHANGED <<afl, sched, cfg, fs, pc, loc, pre, calls>>

InitVal ==
  /\ afl = InitAfl
  /\ sched = InitSched
  /\ cfg \in ValConfigs
  /\ fs = InitFs
  /\ pc = "idle"
  /\ loc = NoLoc
  /\ pre = NoCall
  /\ calls = 0
  /\ vb = InitVb

NextVal ==
  \/ ValCall
  \/ ValSetTimer
  \/ ChildWrite
  \/ ChildExecFails
  \/ ChildEnds
  \/ TimerExpires
  \/ ValWaitReturns
  \/ ValLeave

SpecVal == InitVal /\ [][NextVal]_vars

(***************************************************************************)
(* The novelty functions on their own, over traces with every hit-count    *)
(* class.                                                                  *)
(***************************************************************************)

\* raw hit counts: none, and the counts 1, 2 and 3 of the classes 1, 2 and 4
NoveltyVals == {0, 1, 2, 3}

NoveltyTraces ==
  {[i \in 1..MapSize |-> IF i <= RealMapSize THEN t[i] ELSE 0] :
     t \in [1..RealMapSize -> NoveltyVals]}

\* has_new_bits_unclassified, then classify_counts and has_new_bits_mul as
\* lines 556-566 and 601-607 call them
NoveltyMul ==
  /\ pc = "novelty"
  /\ \E trace \in NoveltyTraces, extra \in 0..1, modify \in BOOLEAN :
       LET names == VirginNames(extra)
           maps == MapsOf(afl, sched, names)
           nb == has_new_bits_unclassified(trace, maps)
           cls == classify_counts(trace)
           r == has_new_bits_mul(cls, maps, modify)
       IN /\ loc' = [op |-> "mul", raw |-> trace, skim |-> nb, extra |-> extra,
                     ret |-> IF nb = 0 THEN 0 ELSE r.ret]
          /\ afl' = IF nb = 0 THEN [afl EXCEPT !.trace_bits = trace]
                    ELSE WriteBack([afl EXCEPT !.trace_bits = cls], names, r.virgins)
          /\ sched' = IF nb = 0 THEN sched ELSE WriteBackDiv(sched, names, r.virgins)
  /\ UNCHANGED <<cfg, fs, pc, pre, calls, vb>>

\* has_new_bits on virgin_tmout with the simplified trace, as lines 744-748
\* call it
NoveltySingle ==
  /\ pc = "novelty"
  /\ \E trace \in NoveltyTraces :
       LET cur == simplify_trace(classify_counts(trace))
           h == has_new_bits(cur, afl.virgin_tmout, FALSE, afl.bitmap_changed)
       IN /\ loc' = [op |-> "single", raw |-> trace, skim |-> -1, extra |-> 0,
                     ret |-> h.ret]
          /\ afl' = [afl EXCEPT !.trace_bits = cur, !.virgin_tmout = h.virgin,
                                !.bitmap_changed = h.bitmap_changed]
  /\ UNCHANGED <<sched, cfg, fs, pc, pre, calls, vb>>

\* has_new_bits on the primary map with the classified trace, as the
\* calibration of a queue entry calls it
NoveltyClassified ==
  /\ pc = "novelty"
  /\ \E trace \in NoveltyTraces :
       LET cur == classify_counts(trace)
           h == has_new_bits(cur, afl.virgin_bits, TRUE, afl.bitmap_changed)
       IN /\ loc' = [op |-> "classified", raw |-> trace, skim |-> -1, extra |-> 0,
                     ret |-> h.ret]
          /\ afl' = [afl EXCEPT !.trace_bits = cur, !.virgin_bits = h.virgin,
                                !.bitmap_changed = h.bitmap_changed]
  /\ UNCHANGED <<sched, cfg, fs, pc, pre, calls, vb>>

InitNovelty ==
  /\ afl = InitAfl
  /\ sched = InitSched
  /\ cfg = Config(FALSE, FALSE, FALSE, TRUE, TRUE, FALSE, FALSE)
  /\ fs = InitFs
  /\ pc = "novelty"
  /\ loc = NoLoc
  /\ pre = NoCall
  /\ calls = 0
  /\ vb = InitVb

NextNovelty ==
  \/ NoveltyMul
  \/ NoveltySingle
  \/ NoveltyClassified

SpecNovelty == InitNovelty /\ [][NextNovelty]_vars

(***************************************************************************)
(* The hashmap on its own: any sequence of inserts, removes and gets on a  *)
(* map created empty, next to a count of what each key should hold.        *)
(***************************************************************************)

\* number of hashmap calls explored
MaxMapOps == 5

\* table_size values hashmap_create is called with
MapTableSizes == {1, 2, 3}

\* keys: 1 and 5 share a bucket for table sizes 1, 2 and 4
MapKeys == {1, 2, 5}

MapValues == {"v1", "v2"}

\* what a key-counting reference holds after an insert or a remove
RefInsert(ref, key) == [ref EXCEPT ![key] = @ + 1]

RefRemove(ref, key) == [ref EXCEPT ![key] = IF @ > 0 THEN @ - 1 ELSE 0]

MapInsert ==
  /\ pc = "map"
  /\ loc.ops < MaxMapOps
  /\ \E key \in MapKeys, value \in MapValues :
       /\ afl' = [afl EXCEPT !.value_map = hashmap_insert(@, key, value)]
       /\ loc' = [ops |-> loc.ops + 1, ref |-> RefInsert(loc.ref, key),
                  op |-> "insert", key |-> key, value |-> value,
                  before |-> afl.value_map, ret |-> NULL,
                  last |-> [loc.last EXCEPT ![key] = value],
                  removes |-> loc.removes]
  /\ UNCHANGED <<sched, cfg, fs, pc, pre, calls, vb>>

MapRemove ==
  /\ pc = "map"
  /\ loc.ops < MaxMapOps
  /\ \E key \in MapKeys :
       /\ afl' = [afl EXCEPT !.value_map = hashmap_remove(@, key)]
       /\ loc' = [ops |-> loc.ops + 1, ref |-> RefRemove(loc.ref, key),
                  op |-> "remove", key |-> key, value |-> "v1",
                  before |-> afl.value_map, ret |-> NULL,
                  last |-> loc.last, removes |-> loc.removes + 1]
  /\ UNCHANGED <<sched, cfg, fs, pc, pre, calls, vb>>

MapGet ==
  /\ pc = "map"
  /\ loc.ops < MaxMapOps
  /\ \E key \in MapKeys :
       /\ loc' = [ops |-> loc.ops + 1, ref |-> loc.ref,
                  op |-> "get", key |-> key, value |-> "v1",
                  before |-> afl.value_map,
                  ret |-> hashmap_get(afl.value_map, key),
                  last |-> loc.last, removes |-> loc.removes]
  /\ UNCHANGED <<afl, sched, cfg, fs, pc, pre, calls, vb>>

InitMap ==
  /\ \E table_size \in MapTableSizes :
       /\ afl = [InitAfl EXCEPT !.value_map = hashmap_create(table_size)]
       /\ loc = [ops |-> 0, ref |-> [k \in MapKeys |-> 0],
                 op |-> "create", key |-> 0, value |-> "v1",
                 before |-> hashmap_create(table_size), ret |-> NULL,
                 last |-> [k \in MapKeys |-> "none"], removes |-> 0]
  /\ sched = InitSched
  /\ cfg = Config(FALSE, FALSE, FALSE, TRUE, TRUE, FALSE, FALSE)
  /\ fs = InitFs
  /\ pc = "map"
  /\ pre = NoCall
  /\ calls = 0
  /\ vb = InitVb

NextMap ==
  \/ MapInsert
  \/ MapRemove
  \/ MapGet

SpecMap == InitMap /\ [][NextMap]_vars

(***************************************************************************)
(* describe_op as a function of its arguments                              *)
(***************************************************************************)

\* the tags handed to describe_op: any u8
Tags == 0..255

\* strlen of the name before the suffixes are appended (lines 347-421); it
\* fits in describe_op_buf_256 with the suffixes
BaseLens == {30, 225, 232}

\* max_description_len: NAME_MAX - strlen("id:000000,") and a short one
MaxDescLens == {36, 245}

\* strlen of a suffix
strlen(s) ==
  CASE s = ",+tout" -> 6
    [] s = ",+cov"  -> 5
    [] s = ",+cov2" -> 6
    [] s = ",+div"  -> 5
    [] s = ",+div2" -> 6
    [] s = ",+path" -> 6

\* strlen(ret) at line 435: the name and the suffixes appended to it
RECURSIVE DescribeLen(_, _)
DescribeLen(base_len, suffixes) ==
  IF suffixes = << >> THEN base_len
  ELSE DescribeLen(base_len + strlen(Head(suffixes)), Tail(suffixes))

\* one call of describe_op; fatal is the FATAL of line 436
DescribeCall ==
  /\ pc = "describe"
  /\ ~loc.called
  /\ \E tag \in Tags, new_paths \in {0, 1}, base_len \in BaseLens,
        max_description_len \in MaxDescLens :
       LET ret == describe_op(tag, new_paths)
           len == DescribeLen(base_len, ret)
       IN loc' = [called |-> TRUE, new_bits |-> tag, new_paths |-> new_paths,
                  base_len |-> base_len,
                  max_description_len |-> max_description_len,
                  ret |-> ret, len |-> len,
                  fatal |-> len >= max_description_len]
  /\ UNCHANGED <<afl, sched, cfg, fs, pc, pre, calls, vb>>

InitDescribe ==
  /\ afl = InitAfl
  /\ loc = [called |-> FALSE, new_bits |-> 0, new_paths |-> 0, base_len |-> 30,
            max_description_len |-> 245, ret |-> << >>, len |-> 0,
            fatal |-> FALSE]
  /\ sched = InitSched
  /\ cfg = Config(FALSE, FALSE, FALSE, TRUE, TRUE, FALSE, FALSE)
  /\ fs = InitFs
  /\ pc = "describe"
  /\ pre = NoCall
  /\ calls = 0
  /\ vb = InitVb

\* the caller has used the name; the next call may start
DescribeDone ==
  /\ pc = "describe"
  /\ loc.called
  /\ loc' = [called |-> FALSE, new_bits |-> 0, new_paths |-> 0, base_len |-> 30,
            max_description_len |-> 245, ret |-> << >>, len |-> 0,
            fatal |-> FALSE]
  /\ UNCHANGED <<afl, sched, cfg, fs, pc, pre, calls, vb>>

NextDescribe ==
  \/ DescribeCall
  \/ DescribeDone

SpecDescribe == InitDescribe /\ [][NextDescribe]_vars

(***************************************************************************)
(* init_count_class16 and the 16-bit class table                           *)
(***************************************************************************)

\* the 16-bit words classified once the table is filled
Words16 == {0, 258, 832, 1027, 16448, 32896, 65535}

\* u16 count_class_lookup16[65536] after `rounds` rounds of the outer loop of
\* init_count_class16: the entries (b1 << 8) + b2 with b1 < rounds are
\* written (the two bytes do not overlap, so | is +), the others are still
\* the zeroes of static storage
count_class_lookup16(rounds, w) ==
  IF w \div 256 < rounds
  THEN count_class_lookup8(w \div 256) * 256 + count_class_lookup8(w % 256)
  ELSE 0

\* one round of the outer loop of init_count_class16: the inner loop writes
\* the 256 entries of row b1
InitCountClass16Row ==
  /\ pc = "class16"
  /\ loc.b1 < 256
  /\ loc' = [loc EXCEPT !.b1 = @ + 1]
  /\ UNCHANGED <<afl, sched, cfg, fs, pc, pre, calls, vb>>

\* a word looked up in the filled table, and the result looked up again
Classify16 ==
  /\ pc = "class16"
  /\ loc.b1 = 256
  /\ \E w \in Words16 :
       loc' = [loc EXCEPT !.applied = TRUE, !.w = w,
                          !.once = count_class_lookup16(loc.b1, w),
                          !.twice = count_class_lookup16(loc.b1,
                                       count_class_lookup16(loc.b1, w))]
  /\ UNCHANGED <<afl, sched, cfg, fs, pc, pre, calls, vb>>

InitClass16 ==
  /\ afl = InitAfl
  /\ loc = [b1 |-> 0, applied |-> FALSE, w |-> 0,
            once |-> 0, twice |-> 0]
  /\ sched = InitSched
  /\ cfg = Config(FALSE, FALSE, FALSE, TRUE, TRUE, FALSE, FALSE)
  /\ fs = InitFs
  /\ pc = "class16"
  /\ pre = NoCall
  /\ calls = 0
  /\ vb = InitVb

NextClass16 ==
  \/ InitCountClass16Row
  \/ Classify16

SpecClass16 == InitClass16 /\ [][NextClass16]_vars

(***************************************************************************)
(* count_bytes and count_non_255_bytes as functions of the map             *)
(***************************************************************************)

\* largest real_map_size counted
CountMaxLen == 6

\* the byte values of the counted maps
CountVals == {0, 1, 255}

\* the values the bytes between real_map_size and the word boundary hold
PadVals == {0, 255}

\* u32 i = ((afl->fsrv.real_map_size + 3) >> 2)
CountWords(real_map_size) == (real_map_size + 3) \div 4

\* the maps of real_map_size bytes, padded to the 32-bit word boundary
CountMaps(real_map_size, pad) ==
  {[i \in 1..(4 * CountWords(real_map_size)) |->
      IF i <= real_map_size THEN m[i] ELSE pad] :
     m \in [1..real_map_size -> CountVals]}

\* the bytes of 32-bit word w (from 1) of mem
Word32(mem, w) == [k \in 1..4 |-> mem[4 * (w - 1) + k]]

\* the loop of count_bytes from word w on
RECURSIVE CountBytesLoop(_, _, _, _)
CountBytesLoop(mem, w, words, ret) ==
  IF w > words THEN ret
  ELSE LET v == Word32(mem, w)
       IN IF \A k \in 1..4 : v[k] = 0
          THEN CountBytesLoop(mem, w + 1, words, ret)
          ELSE CountBytesLoop(mem, w + 1, words,
                 ret + (IF v[1] # 0 THEN 1 ELSE 0) + (IF v[2] # 0 THEN 1 ELSE 0)
                     + (IF v[3] # 0 THEN 1 ELSE 0) + (IF v[4] # 0 THEN 1 ELSE 0))

count_bytes(real_map_size, mem) ==
  CountBytesLoop(mem, 1, CountWords(real_map_size), 0)

\* the loop of count_non_255_bytes from word w on
RECURSIVE CountNon255Loop(_, _, _, _)
CountNon255Loop(mem, w, words, ret) ==
  IF w > words THEN ret
  ELSE LET v == Word32(mem, w)
       IN IF \A k \in 1..4 : v[k] = 255
          THEN CountNon255Loop(mem, w + 1, words, ret)
          ELSE CountNon255Loop(mem, w + 1, words,
                 ret + (IF v[1] # 255 THEN 1 ELSE 0) + (IF v[2] # 255 THEN 1 ELSE 0)
                     + (IF v[3] # 255 THEN 1 ELSE 0) + (IF v[4] # 255 THEN 1 ELSE 0))

count_non_255_bytes(real_map_size, mem) ==
  CountNon255Loop(mem, 1, CountWords(real_map_size), 0)

NoCount ==
  [called |-> FALSE, op |-> "none", real_map_size |-> 0, pad |-> 0,
   mem |-> << >>, ret |-> 0]

CountBytesCall ==
  /\ pc = "count"
  /\ ~loc.called
  /\ \E n \in 1..CountMaxLen, pad \in PadVals :
       \E mem \in CountMaps(n, pad) :
          loc' = [called |-> TRUE, op |-> "count_bytes", real_map_size |-> n,
                  pad |-> pad, mem |-> mem, ret |-> count_bytes(n, mem)]
  /\ UNCHANGED <<afl, sched, cfg, fs, pc, pre, calls, vb>>

CountNon255Call ==
  /\ pc = "count"
  /\ ~loc.called
  /\ \E n \in 1..CountMaxLen, pad \in PadVals :
       \E mem \in CountMaps(n, pad) :
          loc' = [called |-> TRUE, op |-> "count_non_255_bytes",
                  real_map_size |-> n, pad |-> pad, mem |-> mem,
                  ret |-> count_non_255_bytes(n, mem)]
  /\ UNCHANGED <<afl, sched, cfg, fs, pc, pre, calls, vb>>

\* the status screen has shown the count; the next call may start
CountDone ==
  /\ pc = "count"
  /\ loc.called
  /\ loc' = NoCount
  /\ UNCHANGED <<afl, sched, cfg, fs, pc, pre, calls, vb>>

InitCount ==
  /\ afl = InitAfl
  /\ loc = NoCount
  /\ sched = InitSched
  /\ cfg = Config(FALSE, FALSE, FALSE, TRUE, TRUE, FALSE, FALSE)
  /\ fs = InitFs
  /\ pc = "count"
  /\ pre = NoCall
  /\ calls = 0
  /\ vb = InitVb

NextCount ==
  \/ CountBytesCall
  \/ CountNon255Call
  \/ CountDone

SpecCount == InitCount /\ [][NextCount]_vars

(***************************************************************************)
(* The passes of timed-out calls through the switch and the save_to_queue  *)
(* label. The counters the passes only increment and never test            *)
(* (total_tmouts, saved_tmouts, queued_items, the queue and its files) are *)
(* left out, so that a pass that can repeat for ever is a cycle.           *)
(***************************************************************************)

\* sessions with exec_tmout < hang_tmout: instrumented or not, keep_timeouts
\* on or off
HangConfigs ==
  {Config(ni, FALSE, kt, FALSE, TRUE, FALSE, FALSE) : ni \in BOOLEAN, kt \in BOOLEAN}

\* the locals the passes read
HangLoc(classified, keeping, is_timeout) ==
  [fault |-> "TMOUT", classified |-> classified, keeping |-> keeping,
   is_timeout |-> is_timeout]

\* a call with len > 0 and fault TMOUT reaches the switch: lines 511-531 and
\* the else of 718-720
HangEnter ==
  /\ pc = "idle"
  /\ \E trace \in Traces :
       afl' = [afl EXCEPT !.trace_bits = trace]
  /\ pc' = "switch"
  /\ loc' = HangLoc(0, 0, 0)
  /\ UNCHANGED <<sched, cfg, fs, pre, calls, vb>>

\* lines 724-853: one pass through case FSRV_RUN_TMOUT
HangSwitch ==
  /\ pc = "switch"
  /\ LET ni == cfg.non_instrumented_mode
         cls == IF Unclassified(loc) THEN classify_counts(afl.trace_bits)
                ELSE afl.trace_bits
         tr == simplify_trace(cls)
         h == has_new_bits(tr, afl.virgin_tmout, FALSE, afl.bitmap_changed)
         a2 == IF ni THEN afl
               ELSE [afl EXCEPT !.trace_bits = tr, !.virgin_tmout = h.virgin]
         l2 == IF ni THEN loc ELSE [loc EXCEPT !.classified = 1]
         l3 == [l2 EXCEPT !.is_timeout = 128]
     IN IF HangCapReached(afl)
        THEN /\ afl' = afl
             /\ pc' = "done"
             /\ loc' = loc
        ELSE IF ~ni /\ h.ret = 0
        THEN /\ afl' = a2
             /\ pc' = "done"
             /\ loc' = l2
        ELSE \E new_fault \in Faults, new_trace \in Traces, stop_soon \in BOOLEAN :
               LET a4 == [a2 EXCEPT !.trace_bits = classify_counts(new_trace)]
               IN IF ~stop_soon /\ new_fault = "CRASH"
                  THEN \* keep_as_crash returns on each of its paths
                       /\ afl' = a4
                       /\ pc' = "done"
                       /\ loc' = l3
                  ELSE IF RerunPassed(stop_soon, new_fault)
                  THEN /\ afl' = a4
                       /\ loc' = l3
                       /\ pc' = IF cfg.afl_keep_timeouts THEN "save_to_queue"
                                ELSE "done"
                  ELSE /\ afl' = [a4 EXCEPT !.saved_hangs = @ + 1]
                       /\ pc' = "done"
                       /\ loc' = l3
  /\ UNCHANGED <<sched, cfg, fs, pre, calls, vb>>

\* lines 620-715 on the keep_timeouts path: the entry, calibrate_case,
\* keeping = 1, then the switch again
HangSaveToQueue ==
  /\ pc = "save_to_queue"
  /\ \E res \in {"OK", "ERROR"} :
       IF res = "ERROR"
       THEN pc' = "fatal" /\ loc' = loc
       ELSE pc' = "switch" /\ loc' = MarkKept(loc)
  /\ UNCHANGED <<afl, sched, cfg, fs, pre, calls, vb>>

\* the caller goes on; the next run clears the trace
HangLeave ==
  /\ pc = "done"
  /\ pc' = "idle"
  /\ loc' = NoLoc
  /\ afl' = [afl EXCEPT !.trace_bits = ZeroTrace]
  /\ UNCHANGED <<sched, cfg, fs, pre, calls, vb>>

InitHangLoop ==
  /\ afl = InitAfl
  /\ sched = InitSched
  /\ cfg \in HangConfigs
  /\ fs = InitFs
  /\ pc = "idle"
  /\ loc = NoLoc
  /\ pre = NoCall
  /\ calls = 0
  /\ vb = InitVb

NextHangLoop ==
  \/ HangEnter
  \/ HangSwitch
  \/ HangSaveToQueue
  \/ HangLeave

\* the fuzzer runs: a call that has started takes its next step
SpecHangLoop ==
  /\ InitHangLoop
  /\ [][NextHangLoop]_vars
  /\ WF_vars(HangSwitch)
  /\ WF_vars(HangSaveToQueue)

(***************************************************************************)
(* Properties                                                              *)
(***************************************************************************)

\* every bit set in `new` is set in `old`
BitsWithin(new, old) == \A i \in 1..MapSize : BitAnd(new[i], old[i]) = new[i]

MemoryDirs == {"memory/neg", "memory/pos", "memory/input/neg", "memory/input/pos"}

FilesIn(f, dirs) == {x \in f.out : x[1] \in dirs}

\* C1: no step of any sequence of save_if_interesting calls sets a bit of
\* virgin_bits, virgin_tmout or virgin_crash back to 1: a bit that is 0 stays
\* 0, through the dry run, the commit and every early return.
C1_VirginMonotone ==
  [][/\ BitsWithin(afl'.virgin_bits, afl.virgin_bits)
     /\ BitsWithin(afl'.virgin_tmout, afl.virgin_tmout)
     /\ BitsWithin(afl'.virgin_crash, afl.virgin_crash)]_vars

\* a second call has gone through the dry run and the commit on a primary
\* map that already had cleared bits, and has cleared more
C1_Witness ==
  /\ pc = "done"
  /\ calls = 2
  /\ loc.skim = 1
  /\ pre.afl.virgin_bits # FreshMap
  /\ afl.virgin_bits # pre.afl.virgin_bits

\* C2: as the claim states it: when a call returns having cleared a bit of
\* virgin_bits, bitmap_changed is true; and once the map has been persisted,
\* bitmap_changed is true exactly when virgin_bits differs from the persisted
\* contents.
C2_BitmapChangedTracksPrimary ==
  /\ (pc = "done" /\ afl.virgin_bits # pre.afl.virgin_bits) => afl.bitmap_changed
  /\ (pc \in {"idle", "done"} /\ fs.fuzz_bitmap # << >>)
       => (afl.bitmap_changed <=> afl.virgin_bits # fs.fuzz_bitmap)

\* C3: a call returns 1 exactly when it added an entry to the queue, and 0
\* otherwise, also when len is 0 and when only a hang was recorded.
C3_ReturnsKept ==
  pc = "done" =>
    /\ loc.ret \in {0, 1}
    /\ loc.ret = 1 <=> Len(afl.queue) > Len(pre.afl.queue)
    /\ loc.len = 0 => loc.ret = 0
    /\ (loc.hang_saved /\ Len(afl.queue) = Len(pre.afl.queue)) => loc.ret = 0

\* a call that added to the queue has returned
C3_Witness ==
  /\ pc = "done"
  /\ loc.ret = 1
  /\ Len(afl.queue) = Len(pre.afl.queue) + 1

\* the pairs of the table, chain after chain
RECURSIVE KeysFrom(_, _)
KeysFrom(map, i) ==
  IF i > map.table_size THEN << >>
  ELSE [j \in 1..Len(map.table[i]) |-> map.table[i][j].key] \o KeysFrom(map, i + 1)

\* C4: a run whose side-file hashes to a key already in value_map is
\* rejected: is_unique is 0, the side-file is removed, the store size and the
\* two counters are unchanged, and no memory/ file is written; the store
\* never holds a key twice, so identical side-files grow it by one.
C4_StoreRejectsDuplicates ==
  /\ LET keys == KeysFrom(afl.value_map, 1)
     IN /\ \A i, j \in 1..Len(keys) : keys[i] = keys[j] => i = j
        /\ Len(keys) = hashmap_size(afl.value_map)
  /\ (pc # "idle" /\ loc.dup) =>
       /\ loc.is_unique = 0
       /\ hashmap_size(afl.value_map) = hashmap_size(pre.afl.value_map)
       /\ afl.total_saved_crashes = pre.afl.total_saved_crashes
       /\ afl.total_saved_positives = pre.afl.total_saved_positives
       /\ \A x \in fs.cov : x.name # TmpFile(pre.afl, loc.fault = "CRASH")
       /\ FilesIn(fs, MemoryDirs) = FilesIn(pre.fs, MemoryDirs)

\* a run whose side-file was already in the store has returned
C4_Witness ==
  /\ pc = "done"
  /\ loc.dup
  /\ hashmap_size(afl.value_map) > 0

\* C5: as the claim states it: when the timer expires with the child still
\* running, child_timed_out is set and the fuzzer goes on waiting for the
\* killed child; run_valuation_binary then returns TMOUT and the run is
\* dropped without an insert.
C5_TimeoutKillsChild ==
  vb.alarmed_running =>
    /\ vb.child_timed_out
    /\ vb.ppc \notin {"killed", "fatal"}
    /\ vb.ppc = "returned" =>
         /\ vb.status = [signaled |-> TRUE, code |-> 0, sig |-> "SIGKILL"]
         /\ vb.result = "TMOUT"
         /\ vb.ret = 0
         /\ hashmap_size(afl.value_map) = vb.size_before

\* C6: saved_hangs never exceeds KEEP_UNIQUE_HANG and saved_crashes never
\* exceeds KEEP_UNIQUE_CRASH; a TMOUT run that starts with the hang cap
\* reached writes nothing under hangs/ and leaves virgin_tmout alone, and a
\* CRASH run that starts with the crash cap reached writes nothing under
\* crashes/ and leaves virgin_crash alone.
C6_CapsHold ==
  /\ afl.saved_hangs <= KEEP_UNIQUE_HANG
  /\ afl.saved_crashes <= KEEP_UNIQUE_CRASH
  /\ (pc \notin {"idle", "novelty"} /\ loc.len > 0 /\ loc.fault = "TMOUT"
        /\ pre.afl.saved_hangs >= KEEP_UNIQUE_HANG)
       => /\ FilesIn(fs, {"hangs"}) = FilesIn(pre.fs, {"hangs"})
          /\ afl.virgin_tmout = pre.afl.virgin_tmout
          /\ afl.saved_hangs = pre.afl.saved_hangs
  /\ (pc \notin {"idle", "novelty"} /\ loc.len > 0 /\ loc.fault = "CRASH"
        /\ pre.afl.saved_crashes >= KEEP_UNIQUE_CRASH)
       => /\ FilesIn(fs, {"crashes"}) = FilesIn(pre.fs, {"crashes"})
          /\ afl.virgin_crash = pre.afl.virgin_crash
          /\ afl.saved_crashes = pre.afl.saved_crashes

\* a TMOUT run has returned from a call that began with the hang cap reached
C6_Witness ==
  /\ pc = "done"
  /\ loc.len > 0
  /\ loc.fault = "TMOUT"
  /\ pre.afl.saved_hangs = KEEP_UNIQUE_HANG

NewFiles == fs.out \ pre.fs.out

\* a run with fault OK and len > 0 for which skim said no and the scheduler
\* reported no new path has returned
HotPathDone ==
  /\ pc = "done"
  /\ loc.len > 0
  /\ loc.fault = "OK"
  /\ loc.skim = 0
  /\ loc.new_paths = 0

\* the virgin maps and the trace are as the call found them, and the trace
\* was not classified
HotPathFrame ==
  /\ loc.ret = 0
  /\ afl.virgin_bits = pre.afl.virgin_bits
  /\ afl.virgin_tmout = pre.afl.virgin_tmout
  /\ afl.virgin_crash = pre.afl.virgin_crash
  /\ sched.virgin_div = pre.sched.virgin_div
  /\ loc.classify_orig = 0
  /\ afl.trace_bits = pre.afl.trace_bits

\* C8, as the claim states it: on the hot path the call returns 0, no virgin
\* map is mutated, the trace is not classified, and no file is created.
C8_HotPathNoFiles == HotPathDone => (HotPathFrame /\ NewFiles = {})

\* C8, amended: on the hot path the call returns 0, no virgin map is
\* mutated and the trace is not classified; the only files created are the
\* two the valuation step writes when it admits the run, memory/pos/id:N and
\* memory/input/pos_N, and none when it does not.
C8_HotPath ==
  HotPathDone =>
    /\ HotPathFrame
    /\ NewFiles = IF loc.is_unique = 0 THEN {}
                  ELSE {<<"memory/pos", afl.total_saved_positives, << >>>>,
                        <<"memory/input/pos", afl.total_saved_positives, << >>>>}

\* the hot path has returned after the valuation step admitted the run
C8_Witness == HotPathDone /\ loc.is_unique # 0

\* C9: a call with len = 0 returns 0 after one aflrun_recover_virgin and
\* leaves the maps, the trace, the counters, the store, the queue and the
\* files as they were, whatever the fault.
C9_EmptyInput ==
  (pc = "done" /\ loc.len = 0) =>
    /\ loc.ret = 0
    /\ sched.recover_calls = pre.sched.recover_calls + 1
    /\ sched.virgin_div = pre.sched.virgin_div
    /\ afl = pre.afl
    /\ fs = pre.fs

\* an empty input with fault CRASH has returned in a session that had
\* already saved something
C9_Witness ==
  /\ pc = "done"
  /\ loc.len = 0
  /\ loc.fault = "CRASH"
  /\ afl.virgin_bits # FreshMap
  /\ fs.out # {}

\* a TMOUT run whose simplified trace had new bits in virgin_tmout, whose
\* re-run crashed with stop_soon unset, has returned
EscalatedDone ==
  /\ pc = "done"
  /\ loc.fault = "TMOUT"
  /\ loc.tmout_new > 0
  /\ loc.escalated

\* no hang was saved by the call
NoHangSaved ==
  /\ afl.saved_hangs = pre.afl.saved_hangs
  /\ FilesIn(fs, {"hangs"}) = FilesIn(pre.fs, {"hangs"})

\* the call saved one crash
CrashSaved ==
  /\ afl.saved_crashes = pre.afl.saved_crashes + 1
  /\ FilesIn(fs, {"crashes"}) \ FilesIn(pre.fs, {"crashes"})
       = {<<"crashes", pre.afl.saved_crashes, << >>>>}

\* C10, as the claim states it: after the escalation control is in the crash
\* branch, a crash artifact is saved and no hang artifact is.
C10_EscalationSavesCrash ==
  EscalatedDone => (loc.crash_branch /\ CrashSaved /\ NoHangSaved)

\* C10, amended: after the escalation control is in the crash branch
\* (total_crashes is incremented) and no hang artifact is saved; a crash
\* artifact is saved exactly when saved_crashes is below KEEP_UNIQUE_CRASH
\* and the re-run's simplified trace has new bits in virgin_crash.
C10_Escalation ==
  EscalatedDone =>
    /\ loc.crash_branch
    /\ afl.total_crashes = pre.afl.total_crashes + 1
    /\ NoHangSaved
    /\ IF pre.afl.saved_crashes < KEEP_UNIQUE_CRASH /\ loc.crash_new > 0
       THEN CrashSaved
       ELSE /\ afl.saved_crashes = pre.afl.saved_crashes
            /\ FilesIn(fs, {"crashes"}) = FilesIn(pre.fs, {"crashes"})

\* an escalated timeout has been saved as a crash
C10_Witness == EscalatedDone /\ CrashSaved

\* the crash and hang artifacts, without crashes/README.txt
ArtifactDirs == {"crashes", "hangs"}

\* the call went through the end of the crash or of the hang branch
ArtifactBranchDone ==
  /\ pc = "done"
  /\ \/ afl.saved_crashes = pre.afl.saved_crashes + 1
     \/ afl.saved_hangs = pre.afl.saved_hangs + 1

C12_LoadInvariant ==
  LET map == afl.value_map
  IN /\ map.size <= map.table_size \div 2
     /\ Len(map.table) = map.table_size
     /\ loc.op = "insert" =>
          map.table_size \in {loc.before.table_size, 2 * loc.before.table_size}
     /\ loc.op \in {"remove", "get"} => map.table_size = loc.before.table_size

\* an insert has doubled a table that held pairs
C12_Witness ==
  /\ pc = "map"
  /\ loc.op = "insert"
  /\ afl.value_map.table_size = 2 * loc.before.table_size
  /\ loc.before.size > 0

\* the pairs of the table with this key
StoredCount(map, key) ==
  LET keys == KeysFrom(map, 1)
  IN Cardinality({i \in 1..Len(keys) : keys[i] = key})

\* C13: after any sequence of inserts and removes the map agrees with the
\* count of each key: hashmap_get finds a pair of key k exactly when k was
\* inserted more often than removed, the table holds that many pairs of k,
\* hashmap_size is the number of pairs, every pair is in bucket
\* key mod table_size, and removing an absent key changes nothing.
C13_AgreesWithReference ==
  LET map == afl.value_map
  IN /\ \A k \in MapKeys :
          /\ hashmap_get(map, k) # NULL <=> loc.ref[k] > 0
          /\ hashmap_get(map, k) # NULL => hashmap_get(map, k).key = k
          /\ StoredCount(map, k) = loc.ref[k]
     /\ hashmap_size(map) = Len(KeysFrom(map, 1))
     /\ \A i \in 1..map.table_size : \A j \in 1..Len(map.table[i]) :
          hashmap_fit(map.table[i][j].key, map.table_size) = i - 1
     /\ (loc.op = "remove" /\ ~KeyStored(loc.before, loc.key)) => map = loc.before
     /\ (loc.op = "remove" /\ KeyStored(loc.before, loc.key))
          => map.size = loc.before.size - 1

\* a key held twice has lost one pair in a table that was resized
C13_Witness ==
  /\ pc = "map"
  /\ loc.op = "remove"
  /\ KeyStored(loc.before, loc.key)
  /\ loc.ref[loc.key] > 0
  /\ afl.value_map.table_size > 3

\* the suffixes the bits of a tag call for: timeout is bit 0x80, primary the
\* low two bits, diversity the next two
SuffixesByBits(tag, new_paths) ==
  LET timeout == (tag \div 128) % 2 = 1
      primary == tag % 4
      diversity == (tag \div 4) % 4
  IN (IF timeout THEN <<",+tout">> ELSE << >>)
     \o (IF primary >= 1
         THEN (IF primary = 2 THEN <<",+cov2">> ELSE <<",+cov">>) ELSE << >>)
     \o (IF diversity >= 1
         THEN (IF diversity = 2 THEN <<",+div2">> ELSE <<",+div">>) ELSE << >>)
     \o (IF new_paths # 0 THEN <<",+path">> ELSE << >>)

\* describe_op returns exactly when the name is shorter than max_description_len
DescribeLengthChecked ==
  /\ loc.fatal <=> loc.len >= loc.max_description_len
  /\ loc.len = DescribeLen(loc.base_len, loc.ret)

Classes == {0, 1, 2, 4, 8, 16, 32, 64, 128}

\* the classes the class table maps to themselves
FixedClasses == {0, 1, 2, 64, 128}

\* every class is one of the nine buckets
ClassesInRange == \A b \in 0..255 : count_class_lookup8(b) \in Classes

\* the row init_count_class16 has just written, and every row once the loop
\* has ended, holds the classes of the two bytes
Rows16Filled ==
  \A b1 \in (IF loc.b1 = 256 THEN 0 ELSE loc.b1 - 1)..(loc.b1 - 1), b2 \in 0..255 :
     LET e == count_class_lookup16(loc.b1, b1 * 256 + b2)
     IN e \div 256 = count_class_lookup8(b1) /\ e % 256 = count_class_lookup8(b2)

\* C15 as stated: every class is one of the nine buckets, the class table
\* applied twice equals the class table applied once, the 16-bit table holds
\* the classes of the two bytes, and the 16-bit table applied twice equals
\* the 16-bit table applied once
C15_ClassifyIdempotent ==
  pc = "class16" =>
     /\ ClassesInRange
     /\ \A b \in 0..255 :
          count_class_lookup8(count_class_lookup8(b)) = count_class_lookup8(b)
     /\ Rows16Filled
     /\ loc.b1 = 256 =>
          \A w \in 0..65535 :
             count_class_lookup16(loc.b1, count_class_lookup16(loc.b1, w))
               = count_class_lookup16(loc.b1, w)

\* C15: every class is one of the nine buckets; the class table applied
\* twice equals the class table applied once exactly on the bytes whose class
\* is 0, 1, 2, 64 or 128 (classes 4, 8, 16 and 32 move one bucket up); the
\* 16-bit table holds the classes of the two bytes, and applied twice it
\* equals itself applied once exactly on the words whose two bytes are such
\* bytes
C15_ClassifyRange ==
  pc = "class16" =>
     /\ ClassesInRange
     /\ \A b \in 0..255 :
          LET c == count_class_lookup8(b)
          IN /\ count_class_lookup8(c) = c <=> c \in FixedClasses
             /\ c \notin FixedClasses => count_class_lookup8(c) = 2 * c
     /\ Rows16Filled
     /\ loc.b1 = 256 =>
          \A w \in 0..65535 :
             count_class_lookup16(loc.b1, count_class_lookup16(loc.b1, w))
               = count_class_lookup16(loc.b1, w)
               <=> /\ count_class_lookup8(w \div 256) \in FixedClasses
                   /\ count_class_lookup8(w % 256) \in FixedClasses

\* the filled table applied to the word 0x0340: 0x0440 once, 0x0840 twice
C15_Witness ==
  /\ pc = "class16"
  /\ loc.b1 = 256
  /\ loc.applied
  /\ loc.w = 832
  /\ loc.once = 1088
  /\ loc.twice = 2112

\* the maps the multi-map detector is handed: the primary map and the
\* diversity maps
DetectorMaps(a, s) == <<a.virgin_bits, s.virgin_div>>

AllVirgin(a, s) == <<a.virgin_bits, s.virgin_div, a.virgin_tmout, a.virgin_crash>>

NewQueueFiles == FilesIn(fs, {"queue"}) \ FilesIn(pre.fs, {"queue"})

NewHangFiles == FilesIn(fs, {"hangs"}) \ FilesIn(pre.fs, {"hangs"})

\* the call is a timeout with new bits in virgin_tmout whose re-run under
\* hang_tmout has just been judged, with keep_timeouts on
KeepTimeoutsCase(l) ==
  /\ l.fault = "TMOUT"
  /\ cfg.afl_keep_timeouts
  /\ ~cfg.non_instrumented_mode
  /\ l.tmout_new > 0
  /\ l.reruns = 1

\* the step of the switch in which the re-run of the first pass is judged
RerunJudged == pc = "switch" /\ loc.fault = "TMOUT" /\ loc.reruns = 0 /\ loc'.reruns = 1

\* C17 as stated: with keep_timeouts on, a timeout with new bits in
\* virgin_tmout whose re-run still times out goes to the queue-save branch
\* with the primary map only and the tag 0x80, and is not written under hangs/
C17_StillTimesOutQueued ==
  [][ (RerunJudged /\ KeepTimeoutsCase(loc')
         /\ loc'.rerun_fault = "TMOUT" /\ ~loc'.rerun_stop) =>
        /\ pc' = "save_to_queue"
        /\ loc'.virgins = <<"virgin_bits">>
        /\ loc'.is_timeout = 128
        /\ FilesIn(fs', {"hangs"}) = FilesIn(fs, {"hangs"})
    ]_vars

\* C17: with keep_timeouts on, a timeout with new bits in virgin_tmout goes
\* to the queue-save branch (primary map only, tag 0x80, saved_tmouts
\* incremented, nothing written under hangs/) exactly when its re-run does not
\* time out and does not crash, or stop_soon is set; a re-run that still
\* times out is written under hangs/ and does not reach the queue-save
\* branch; and the queue file of that branch carries ,+tout
C17_RerunPassesQueued ==
  [][ /\ (RerunJudged /\ KeepTimeoutsCase(loc')) =>
           /\ pc' = "save_to_queue" <=>
                (loc'.rerun_stop \/ loc'.rerun_fault \in {"OK", "ERROR"})
           /\ pc' = "save_to_queue" =>
                /\ loc'.virgins = <<"virgin_bits">>
                /\ loc'.is_timeout = 128
                /\ afl'.saved_tmouts = afl.saved_tmouts + 1
                /\ FilesIn(fs', {"hangs"}) = FilesIn(fs, {"hangs"})
           /\ (loc'.rerun_fault = "TMOUT" /\ ~loc'.rerun_stop) =>
                /\ pc' = "done"
                /\ loc'.hang_saved
                /\ afl'.saved_hangs = afl.saved_hangs + 1
                /\ FilesIn(fs', {"hangs"}) =
                     FilesIn(fs, {"hangs"}) \cup {<<"hangs", afl.saved_hangs, << >>>>}
      /\ (pc = "save_to_queue" /\ loc.fault = "TMOUT" /\ pc' = "switch") =>
           /\ Len(afl'.queue) = Len(afl.queue) + 1
           /\ \E f \in FilesIn(fs', {"queue"}) \ FilesIn(fs, {"queue"}) :
                f[3] # << >> /\ Head(f[3]) = ",+tout"
    ]_vars

\* a timeout whose re-run ended normally has been enqueued under a name with
\* ,+tout
C17_Witness ==
  /\ pc = "switch"
  /\ KeepTimeoutsCase(loc)
  /\ loc.rerun_fault = "OK" /\ ~loc.rerun_stop
  /\ loc.enqueued = 1
  /\ \E f \in NewQueueFiles : f[3] # << >> /\ Head(f[3]) = ",+tout"

\* C18: a call with len > 0 and fault TMOUT that has returned has increased
\* total_tmouts by exactly one, whatever path it took through the timeout
\* branch
C18_TmoutCountedOnce ==
  (pc = "done" /\ loc.fault = "TMOUT" /\ loc.len > 0) =>
     afl.total_tmouts = pre.afl.total_tmouts + 1

CrashDirs == {"crashes", "crashes/README.txt"}

\* a call with fault OK or CRASH and len > 0 has returned after the detection
\* found neither new bits nor a new path
NothingNewDone ==
  /\ pc = "done"
  /\ loc.fault \in {"OK", "CRASH"}
  /\ loc.len > 0
  /\ loc.skim = 0
  /\ loc.new_paths = 0

\* C19: a call with fault OK or CRASH and len > 0 in which the multi-map
\* protocol finds neither new bits nor a new path returns 0, with
\* total_crashes one higher iff crash_mode is set and unchanged otherwise,
\* and with saved_crashes, last_crash_time, the queue, virgin_crash and the
\* crashes/ directory as they were at entry
C19_NothingNewReturnsZero ==
  NothingNewDone =>
     /\ loc.ret = 0
     /\ afl.total_crashes =
          pre.afl.total_crashes + (IF cfg.crash_mode THEN 1 ELSE 0)
     /\ afl.saved_crashes = pre.afl.saved_crashes
     /\ afl.last_crash_time = pre.afl.last_crash_time
     /\ afl.queue = pre.afl.queue
     /\ afl.queued_items = pre.afl.queued_items
     /\ afl.virgin_crash = pre.afl.virgin_crash
     /\ FilesIn(fs, CrashDirs) = FilesIn(pre.fs, CrashDirs)
     /\ FilesIn(fs, {"queue"}) = FilesIn(pre.fs, {"queue"})

\* a crashing run with nothing new in a session without crash_mode, after an
\* earlier crash has been saved: it is not counted
C19_Witness ==
  /\ NothingNewDone
  /\ loc.fault = "CRASH"
  /\ ~cfg.crash_mode
  /\ afl.saved_crashes = 1
  /\ afl.total_crashes = pre.afl.total_crashes

\* the entry add_to_queue has just put at the top of the queue
QueueTop(a) == a.queue[Len(a.queue)]

\* the step of the queue-save branch that enqueues an entry
Enqueues == pc = "save_to_queue" /\ Len(afl'.queue) = Len(afl.queue) + 1

\* C20: the entry enqueued by the queue-save branch has aflrun_extra = 1, and
\* queued_extra is incremented, iff the primary level of the tag is 0 and the
\* diversity level or new_paths is not 0; it has has_new_cov = 1, and
\* queued_with_cov is incremented, iff the primary level is 2; no entry has
\* both marks, no other step changes the two counters, and their sum never
\* exceeds the number of entries enqueued
C20_QueueMarks ==
  /\ [](/\ afl.queued_extra + afl.queued_with_cov <= Len(afl.queue)
        /\ \A i \in 1..Len(afl.queue) :
             ~(afl.queue[i].aflrun_extra = 1 /\ afl.queue[i].has_new_cov = 1))
  /\ [][ /\ Enqueues =>
              LET primary == loc.new_bits % 4
                  diversity == (loc.new_bits \div 4) % 4
                  e == QueueTop(afl')
              IN /\ e.aflrun_extra = 1 <=>
                      (primary = 0 /\ (diversity # 0 \/ loc.new_paths # 0))
                 /\ e.aflrun_extra \in {0, 1}
                 /\ afl'.queued_extra = afl.queued_extra + e.aflrun_extra
                 /\ e.has_new_cov = 1 <=> primary = 2
                 /\ e.has_new_cov \in {0, 1}
                 /\ afl'.queued_with_cov = afl.queued_with_cov + e.has_new_cov
         /\ ~Enqueues =>
              /\ afl'.queued_extra = afl.queued_extra
              /\ afl'.queued_with_cov = afl.queued_with_cov
       ]_vars

\* an entry found by a new path alone is marked extra, after an entry with a
\* new edge was marked has_new_cov
C20_Witness ==
  /\ pc = "switch"
  /\ loc.enqueued = 1
  /\ loc.new_bits = 0
  /\ loc.new_paths = 1
  /\ Len(afl.queue) = 2
  /\ afl.queue[1].has_new_cov = 1
  /\ afl.queue[2].aflrun_extra = 1
  /\ afl.queued_extra = 1
  /\ afl.queued_with_cov = 1

\* the novelty level of a classified trace against one virgin map: 2 when a
\* byte that was hit meets an untouched virgin byte, 1 when only some bit of
\* the trace is still set in the map, 0 otherwise
Level(cur, vir) ==
  IF \E i \in 1..MapSize : cur[i] # 0 /\ vir[i] = 255 THEN 2
  ELSE IF \E i \in 1..MapSize : BitAnd(cur[i], vir[i]) # 0 THEN 1
  ELSE 0

SingleMap(a, op) == IF op = "single" THEN a.virgin_tmout ELSE a.virgin_bits

\* C22: has_new_bits on a classified trace returns 2 if a non-zero trace byte
\* meets a virgin byte equal to 0xff, otherwise 1 if some trace byte has a
\* bit still set in the virgin byte, otherwise 0; it clears exactly the
\* trace's bits from the map, so the same call repeated at once returns 0 and
\* leaves the map unchanged
C22_SingleMapLevels ==
  [][ loc'.op \in {"single", "classified"} =>
        LET cur == afl'.trace_bits
            before == SingleMap(afl, loc'.op)
            after == SingleMap(afl', loc'.op)
            again == has_new_bits(cur, after, FALSE, FALSE)
        IN /\ loc'.ret = Level(cur, before)
           /\ after = [i \in 1..MapSize |-> AndNot(before[i], cur[i])]
           /\ again.ret = 0
           /\ again.virgin = after
    ]_vars

\* the primary map all 0xff and a classified trace with one byte of class 4:
\* the call returns 2 and leaves 0xfb in that byte
C22_Witness ==
  /\ pc = "novelty"
  /\ loc # NoLoc
  /\ loc.op = "classified"
  /\ afl.trace_bits[1] = 4
  /\ loc.ret = 2
  /\ afl.virgin_bits[1] = 251
  /\ \A i \in 2..MapSize : afl.virgin_bits[i] = 255

\* the trace the last target execution of the call left, before any
\* classification
LastRaw(l) == IF l.reruns = 0 THEN l.raw ELSE l.rerun_raw

\* how often classify_counts ran on that trace
LastClassified(l) == IF l.reruns = 0 THEN l.classify_orig ELSE l.classify_rerun

\* a virgin map with the bits of a trace cleared
Cleared(vir, cur) == [i \in 1..MapSize |-> AndNot(vir[i], cur[i])]

\* C23: within a call classify_counts runs at most once on the trace of the
\* original run and at most once on the trace of each re-run, so trace_bits
\* is the raw trace, or the raw trace classified once (and then possibly
\* simplified); and has_new_bits_mul and has_new_bits clear from the virgin
\* maps the bits of a trace that was classified exactly once
C23_ClassifiedOnce ==
  /\ [](pc \notin {"idle"} =>
          /\ loc.classify_orig <= 1
          /\ loc.classify_rerun <= 1
          /\ LastClassified(loc) = 0 => afl.trace_bits = LastRaw(loc)
          /\ LastClassified(loc) = 1 =>
               afl.trace_bits \in
                 {classify_counts(LastRaw(loc)),
                  simplify_trace(classify_counts(LastRaw(loc)))})
  /\ [][ /\ (pc = "detect" /\ loc'.dry >= 0) =>
              afl'.trace_bits = classify_counts(loc.raw)
         /\ pc = "commit" =>
              /\ afl'.trace_bits = classify_counts(loc.raw)
              /\ afl'.virgin_bits = Cleared(afl.virgin_bits, classify_counts(loc.raw))
              /\ sched'.virgin_div \in
                   {sched.virgin_div,
                    Cleared(sched.virgin_div, classify_counts(loc.raw))}
         /\ (pc = "switch" /\ afl'.virgin_tmout # afl.virgin_tmout) =>
              afl'.virgin_tmout =
                Cleared(afl.virgin_tmout,
                        simplify_trace(classify_counts(LastRaw(loc))))
         /\ (pc = "switch" /\ afl'.virgin_crash # afl.virgin_crash) =>
              afl'.virgin_crash =
                Cleared(afl.virgin_crash,
                        simplify_trace(classify_counts(LastRaw(loc'))))
       ]_vars

\* a timeout whose re-run crashed: the original trace and the trace of the
\* re-run were each classified once, and the crash map was updated from the
\* trace of the re-run
C23_Witness ==
  /\ pc = "done"
  /\ loc.fault = "TMOUT"
  /\ loc.escalated
  /\ loc.classify_orig = 1
  /\ loc.classify_rerun = 1
  /\ loc.raw # loc.rerun_raw
  /\ loc.crash_new > 0
  /\ afl.virgin_crash # pre.afl.virgin_crash

\* C24: count_bytes returns the number of non-zero bytes and
\* count_non_255_bytes the number of bytes other than 0xff among the
\* real_map_size bytes of the map, also when real_map_size is not a multiple
\* of 4 and the bytes up to the word boundary are zero
C24_CountsExact ==
  (pc = "count" /\ loc.called /\ loc.pad = 0) =>
     /\ loc.op = "count_bytes" =>
          loc.ret = Cardinality({i \in 1..loc.real_map_size : loc.mem[i] # 0})
     /\ loc.op = "count_non_255_bytes" =>
          loc.ret = Cardinality({i \in 1..loc.real_map_size : loc.mem[i] # 255})

\* C25: run_valuation_binary never reports ERROR: whatever the child did
\* (normal exit, death by a signal, a failed exec, a timeout) the parent
\* returns NONE, CRASH or TMOUT
C25_NeverError ==
  (vb.ppc = "returned" /\ vb.ran) => vb.result \in {"NONE", "CRASH", "TMOUT"}

\* C26: every call terminates: a call that has reached the switch returns
\* (or ends the process with a fatal error), in instrumented and in
\* non_instrumented_mode, also when keep_timeouts is on and every re-run
\* finishes without timing out
C26_CallTerminates == (pc = "switch") ~> (pc \in {"done", "fatal"})

\* C27: a single call adds at most one entry to the queue and re-runs the
\* target for hang confirmation at most once
C27_OneEntryOneRerun ==
  pc \notin {"idle"} =>
     /\ Len(afl.queue) <= Len(pre.afl.queue) + 1
     /\ loc.enqueued <= 1
     /\ loc.reruns <= 1

\* C28: after inserts only, with a key inserted more than once,
\* hashmap_get(k) returns the node of the most recent insert of k, resizes
\* included
C28_GetMostRecent ==
  (loc.op = "get" /\ loc.removes = 0 /\ loc.ref[loc.key] > 0)
     => (loc.ret # NULL /\ loc.ret.value = loc.last[loc.key])

\* the sequence numbers of the files of one directory
SeqNumbers(dir) == {x[2] : x \in {y \in fs.out : y[1] = dir}}

\* the call at hand had its valuation admitted by get_valuation
Admitted == pc # "idle" /\ loc # NoLoc /\ loc.is_unique # 0

\* the counter of the polarity of the call at hand, in record a
SavedOfPolarity(a) ==
  IF loc.fault = "CRASH" THEN a.total_saved_crashes ELSE a.total_saved_positives

\* C29: the input copy memory/input/<neg|pos>_N carries the N of the
\* memory/<neg|pos>/id:N its side-file was renamed to, and the admitted
\* valuations of one polarity are numbered 1, 2, 3, ... so that no input
\* copy meets an earlier one
C29_SameSequenceNumber ==
  /\ SeqNumbers("memory/neg") = 1..afl.total_saved_crashes
  /\ SeqNumbers("memory/input/neg") = SeqNumbers("memory/neg")
  /\ SeqNumbers("memory/pos") = 1..afl.total_saved_positives
  /\ SeqNumbers("memory/input/pos") = SeqNumbers("memory/pos")
  /\ Admitted =>
       LET N == SavedOfPolarity(pre.afl) + 1
           pol == IF loc.fault = "CRASH" THEN "neg" ELSE "pos"
       IN /\ SavedOfPolarity(afl) = N
          /\ {x \in NewFiles : x[1] \in {"memory/neg", "memory/pos",
                                         "memory/input/neg", "memory/input/pos"}}
               = {<<IF pol = "neg" THEN "memory/neg" ELSE "memory/pos", N, << >>>>,
                  <<IF pol = "neg" THEN "memory/input/neg" ELSE "memory/input/pos",
                    N, << >>>>}

\* the second admitted crashing run of a session
C29_Witness ==
  /\ Admitted
  /\ pc = "detect"
  /\ loc.fault = "CRASH"
  /\ afl.total_saved_crashes = 2
  /\ <<"memory/input/neg", 1, << >>>> \in pre.fs.out
  /\ <<"memory/input/neg", 2, << >>>> \in NewFiles

\* the keys a side-file can hash to
ValueKeys == {hash_file(content) : content \in RunContents \cup {NoFile}}

\* the three things get_valuation keeps: the store and the two counters
ValueStore(a) == <<a.value_map, a.total_saved_crashes, a.total_saved_positives>>

\* get_valuation has just returned from a run that timed out or left no
\* side-file
NothingToStore ==
  /\ vb.ppc = "waiting"
  /\ vb'.ppc = "returned"
  /\ vb'.result = "TMOUT" \/ vb.file = NoFile

\* C30: from an empty store and zero counters, after any sequence of
\* get_valuation calls the size of the store is total_saved_crashes +
\* total_saved_positives, no key is stored twice, and a run that timed out
\* or left no side-file changes neither the store nor the counters
C30_StoreMatchesCounters ==
  /\ [](/\ hashmap_size(afl.value_map)
             = afl.total_saved_crashes + afl.total_saved_positives
        /\ \A key \in ValueKeys : StoredCount(afl.value_map, key) <= 1
        /\ Len(KeysFrom(afl.value_map, 1)) = hashmap_size(afl.value_map))
  /\ [][NothingToStore => ValueStore(afl') = ValueStore(afl)]_vars

\* a run without a side-file has returned to a store that holds two keys
C30_Witness ==
  /\ vb.ppc = "returned"
  /\ vb.ran
  /\ vb.file = NoFile
  /\ vb.ret = 0
  /\ hashmap_size(afl.value_map) = 2
  /\ afl.total_saved_crashes = 1
  /\ afl.total_saved_positives = 1

=============================================================================
